---- MODULE Spec2Model ----
(***************************************************************************)
(* A model of the road-network pathfinding component of                    *)
(* frontend/src/PathfindingVisualizer.js: the React state of the           *)
(* component, its event handlers, and the asynchronous A* loop runAStar.   *)
(*                                                                         *)
(* Coordinates are integers counting steps of 0.001 degree on a grid at    *)
(* the equator; distances and costs are integers counting tenths of a      *)
(* metre, so that Math.round (to metres) is a real conversion.             *)
(*                                                                         *)
(* runAStar is an async function defined in the component body: it reads   *)
(* graph, blockedEdges, trafficJamEdges, isPaused, startPoint, endPoint    *)
(* and speed from the closure of the render in which the button was        *)
(* clicked, and writes the component state through the (stable) setters.   *)
(* Each invocation is a record of `runs` holding the captured values, the  *)
(* loop's local variables, and the await it is suspended at.               *)
(*                                                                         *)
(* History (not program state): `reported` holds the finished invocation   *)
(* whose result pathData and stats currently show, and the field viaEdge   *)
(* of an invocation names the edge each parent pointer was set over.       *)
(* `alerted` is the message of the last alert() a handler showed.          *)
(* `builder` is the state of the ManualGraphBuilder component of            *)
(* frontend/src/ManualBuilder.js.                                          *)
(* `bfs` holds the locals of one call of findPathBetweenNodesUndirected,   *)
(* taken one iteration of its while loop at a time.                        *)
(***************************************************************************)
EXTENDS Integers, Sequences, FiniteSets, TLC

VARIABLES graph, startPoint, endPoint, blockedEdges, trafficJamEdges,
          mode, roadStatusMode, firstBlockNode,
          isRunning, isPaused, isComplete, pathData, stats, runs, reported,
          alerted, builder, bfs

\* The state of PathfindingVisualizer (and of its dashboard variant).
visualizerVars ==
  << graph, startPoint, endPoint, blockedEdges, trafficJamEdges,
     mode, roadStatusMode, firstBlockNode,
     isRunning, isPaused, isComplete, pathData, stats, runs, reported, bfs >>

vars == << graph, startPoint, endPoint, blockedEdges, trafficJamEdges,
           mode, roadStatusMode, firstBlockNode,
           isRunning, isPaused, isComplete, pathData, stats, runs, reported,
           alerted, builder, bfs >>

\* JavaScript null / undefined, for ids; a number that is undefined is
\* Undefined, and an absent object is the record below of its shape.
NULL == "null"

Undefined == 0 - 1

NoNode == [id |-> NULL, lat |-> 0, lng |-> 0]

NoEdge == [id |-> NULL, from |-> NULL, to |-> NULL, distance |-> 0,
           bidirectional |-> FALSE]

NoPoint == [lat |-> Undefined, lng |-> Undefined]

NoBlockNode == [edgeId |-> NULL, from |-> NULL, to |-> NULL]

\* JavaScript Infinity: larger than every cost the bounded graphs produce.
Infinity == 1000000000

\* Tenths of a metre in one grid step: R * pi / 180 * 0.001 with R = 6371000.
StepLen == 1112

startVirtualId == "virtual_start"
endVirtualId == "virtual_end"

\* The messages of alert().
InvalidGraphAlert == "Invalid graph file. Must contain \"nodes\" and \"edges\" arrays."
NoRoadAlert == "No road found near this location. Click closer to a road."
NoRunPathAlert == "No path found between the two selected roads. Operation aborted."
AppliedAlert == "Applied status to road segment(s)."
NoPathFoundAlert == "No path found! Try unblocking some roads."
NoNodeAlert == "Could not find a start or end node on the graph."
DashboardNoPathAlert == "No path found! The road may be blocked or disconnected."
DashboardInvalidAlert == "Invalid graph file format."

(***************************************************************************)
(* Sequence helpers (JavaScript arrays, and Sets in insertion order).      *)
(***************************************************************************)
Range(s) == { s[i] : i \in 1..Len(s) }

Has(s, x) == \E i \in 1..Len(s) : s[i] = x

SetAdd(s, x) == IF Has(s, x) THEN s ELSE Append(s, x)

SetDelete(s, x) == SelectSeq(s, LAMBDA y : y # x)

\* Map.get(k): undefined when the key is absent.
MapGet(m, k) == IF k \in DOMAIN m THEN m[k] ELSE Undefined

\* Map.set(k, v)
MapSet(m, k, v) == [ x \in (DOMAIN m) \cup {k} |-> IF x = k THEN v ELSE m[x] ]

EmptyMap == [ x \in {} |-> 0 ]

\* `v || Infinity`: undefined and 0 are both falsy.
OrInfinity(v) == IF v = Undefined \/ v = 0 THEN Infinity ELSE v

\* `v || 0`
OrZero(v) == IF v = Undefined THEN 0 ELSE v

\* Math.round of a value in tenths of a metre, to whole metres.
MathRound(x) == (x + 5) \div 10

Abs(x) == IF x < 0 THEN -x ELSE x

Max2(a, b) == IF a >= b THEN a ELSE b

(***************************************************************************)
(* haversineDistance: on the equatorial grid the great-circle distance is  *)
(* StepLen times the planar distance; the result is rounded up to the      *)
(* next tenth of a metre (rounding up keeps the triangle inequality).      *)
(***************************************************************************)
RECURSIVE CeilSqrt(_, _, _)
CeilSqrt(n, lo, hi) ==
  IF lo >= hi THEN lo
  ELSE LET mid == (lo + hi) \div 2
       IN IF mid * mid >= n THEN CeilSqrt(n, lo, mid) ELSE CeilSqrt(n, mid + 1, hi)

haversineDistance(lat1, lng1, lat2, lng2) ==
  LET dLat == Abs(lat2 - lat1)
      dLng == Abs(lng2 - lng1)
  IN CeilSqrt(StepLen * StepLen * (dLat * dLat + dLng * dLng),
              StepLen * Max2(dLat, dLng), StepLen * (dLat + dLng))

(***************************************************************************)
(* Graph access.  graph = [nodes |-> <<node>>, edges |-> <<edge>>] with    *)
(* node = [id, lat, lng] and edge = [id, from, to, distance,               *)
(* bidirectional]; both are arrays and are scanned in array order.         *)
(***************************************************************************)
\* nodes.find((n) => n.id === id)
FindNode(nodes, id) ==
  IF \E i \in 1..Len(nodes) : nodes[i].id = id
  THEN nodes[CHOOSE i \in 1..Len(nodes) :
               nodes[i].id = id /\ \A j \in 1..(i - 1) : nodes[j].id # id]
  ELSE NoNode

\* The squared planar distance from the click to its projection on the
\* edge, as a fraction num/den, with the clamped parameter t = tnum/tden.
EdgeProjection(clickedLat, clickedLng, fromNode, toNode) ==
  LET dx == toNode.lng - fromNode.lng
      dy == toNode.lat - fromNode.lat
      lengthSquared == dx * dx + dy * dy
      cx == clickedLng - fromNode.lng
      cy == clickedLat - fromNode.lat
      dot == cx * dx + cy * dy
      tx == clickedLng - toNode.lng
      ty == clickedLat - toNode.lat
  IN IF lengthSquared = 0
     THEN [num |-> cx * cx + cy * cy, den |-> 1, tnum |-> 0, tden |-> 1]
     ELSE IF dot <= 0
     THEN [num |-> cx * cx + cy * cy, den |-> 1, tnum |-> 0, tden |-> 1]
     ELSE IF dot >= lengthSquared
     THEN [num |-> tx * tx + ty * ty, den |-> 1, tnum |-> 1, tden |-> 1]
     ELSE [num |-> (cx * cx + cy * cy) * lengthSquared - dot * dot,
           den |-> lengthSquared, tnum |-> dot, tden |-> lengthSquared]

NoNearest == [edge |-> NoEdge,
              projection |-> [num |-> 0, den |-> 1, tnum |-> 0, tden |-> 1]]

\* The scan from edge i on: `best` is the nearest {edge, projection} so far
\* (minDistance is projection.num / projection.den, compared exactly).
RECURSIVE NearestScan(_, _, _, _, _)
NearestScan(clickedLat, clickedLng, graphArg, i, best) ==
  IF i > Len(graphArg.edges) THEN best
  ELSE LET edge == graphArg.edges[i]
           fromNode == FindNode(graphArg.nodes, edge.from)
           toNode == FindNode(graphArg.nodes, edge.to)
       IN IF fromNode.id = NULL \/ toNode.id = NULL
          THEN NearestScan(clickedLat, clickedLng, graphArg, i + 1, best)
          ELSE LET p == EdgeProjection(clickedLat, clickedLng, fromNode, toNode)
                   closer == \/ best.edge.id = NULL
                             \/ p.num * best.projection.den
                                  < best.projection.num * p.den
               IN NearestScan(clickedLat, clickedLng, graphArg, i + 1,
                              IF closer THEN [edge |-> edge, projection |-> p]
                              ELSE best)

findNearestEdgeAndProjection(clickedLat, clickedLng, graphArg) ==
  IF Len(graphArg.edges) = 0 THEN NoNearest
  ELSE NearestScan(clickedLat, clickedLng, graphArg, 1, NoNearest)

(***************************************************************************)
(* runAStar: the augmented graph of one search.                            *)
(***************************************************************************)
\* The two connector edges of a bound point: none when the graph has no
\* edge or an endpoint of the nearest edge is not a node.
ConnectorEdges(graphArg, point, virtualId, fromEdgeId, toEdgeId) ==
  LET info == findNearestEdgeAndProjection(point.lat, point.lng, graphArg)
      nFrom == FindNode(graphArg.nodes, info.edge.from)
      nTo == FindNode(graphArg.nodes, info.edge.to)
  IN IF info.edge.id # NULL /\ nFrom.id # NULL /\ nTo.id # NULL
     THEN << [id |-> fromEdgeId, from |-> virtualId, to |-> info.edge.from,
              distance |-> haversineDistance(point.lat, point.lng, nFrom.lat, nFrom.lng),
              bidirectional |-> TRUE],
             [id |-> toEdgeId, from |-> virtualId, to |-> info.edge.to,
              distance |-> haversineDistance(point.lat, point.lng, nTo.lat, nTo.lng),
              bidirectional |-> TRUE] >>
     ELSE << >>

AugmentedNodes(graphArg, sp, ep) ==
  graphArg.nodes \o << [id |-> startVirtualId, lat |-> sp.lat, lng |-> sp.lng],
                       [id |-> endVirtualId, lat |-> ep.lat, lng |-> ep.lng] >>

AugmentedEdges(graphArg, sp, ep) ==
  graphArg.edges
    \o ConnectorEdges(graphArg, sp, startVirtualId, "virtual_start_from", "virtual_start_to")
    \o ConnectorEdges(graphArg, ep, endVirtualId, "virtual_end_from", "virtual_end_to")

\* String(edge.id).startsWith("virtual_"): the ids runAStar gives its
\* connector edges (no edge of a loaded graph carries such an id here).
StartsWithVirtual(id) ==
  id \in {"virtual_start_from", "virtual_start_to", "virtual_end_from", "virtual_end_to"}

heuristicFunc(r, nodeId) ==
  LET node == FindNode(r.augmentedNodes, nodeId)
  IN IF node.id = NULL THEN 0
     ELSE haversineDistance(node.lat, node.lng, r.endPoint.lat, r.endPoint.lng)

\* A weight that leaves out the congestion factor.
EdgeWeight_NoPenalty(r, edge) == edge.distance

\* The cost of an edge under the overlay the search reads.
EdgeWeight(r, edge) ==
  IF edge.id \in r.trafficJamEdges THEN edge.distance * 3 ELSE edge.distance

\* A scan that tests the congested set where the code tests the blocked one.
EdgeSkipped_TestsTraffic(r, edge) ==
  edge.id \in r.trafficJamEdges /\ ~StartsWithVirtual(edge.id)

\* Whether the scan skips the edge.
EdgeSkipped(r, edge) ==
  edge.id \in r.blockedEdges /\ ~StartsWithVirtual(edge.id)

\* A scan that follows every edge from either end, whatever its flag.
EdgeNeighbor_IgnoresDirection(edge, nodeId) ==
  IF edge.from = nodeId THEN edge.to
  ELSE IF edge.to = nodeId THEN edge.from
  ELSE NULL

\* Whether the edge yields a neighbour of nodeId, and which.
EdgeNeighbor(edge, nodeId) ==
  IF edge.from = nodeId THEN edge.to
  ELSE IF edge.to = nodeId /\ edge.bidirectional # FALSE THEN edge.from
  ELSE NULL

RECURSIVE NeighborScan(_, _, _)
NeighborScan(r, nodeId, i) ==
  IF i > Len(r.augmentedEdges) THEN << >>
  ELSE LET edge == r.augmentedEdges[i]
           rest == NeighborScan(r, nodeId, i + 1)
       IN IF EdgeSkipped(r, edge) \/ EdgeNeighbor(edge, nodeId) = NULL
          THEN rest
          ELSE << [id |-> EdgeNeighbor(edge, nodeId), cost |-> EdgeWeight(r, edge),
                   edgeId |-> edge.id] >> \o rest

getAugmentedNeighbors(r, nodeId) == NeighborScan(r, nodeId, 1)

\* The node of openSet with the lowest `fScore.get(node) || Infinity`,
\* the first one in insertion order among equals; null when none is
\* below Infinity.
RECURSIVE LowestScan(_, _, _, _)
LowestScan(r, i, current, lowestF) ==
  IF i > Len(r.openSet) THEN current
  ELSE LET f == OrInfinity(MapGet(r.fScore, r.openSet[i]))
       IN IF f < lowestF THEN LowestScan(r, i + 1, r.openSet[i], f)
          ELSE LowestScan(r, i + 1, current, lowestF)

LowestF(r) == LowestScan(r, 1, NULL, Infinity)

\* Whether the relaxation of one neighbour writes cameFrom/gScore/fScore.
RelaxUpdates(r, neighbor, tentativeG) ==
  \/ ~Has(r.openSet, neighbor.id)
  \/ ~(tentativeG >= OrInfinity(MapGet(r.gScore, neighbor.id)))

\* The relaxation of the neighbours of r.current from the i-th on.
RECURSIVE RelaxScan(_, _, _)
RelaxScan(r, neighbors, i) ==
  IF i > Len(neighbors) THEN r
  ELSE LET neighbor == neighbors[i]
           tentativeG == OrZero(MapGet(r.gScore, r.current)) + neighbor.cost
       IN IF neighbor.id \in r.closedSet \/ ~RelaxUpdates(r, neighbor, tentativeG)
          THEN RelaxScan(r, neighbors, i + 1)
          ELSE RelaxScan(
                 [r EXCEPT !.openSet = SetAdd(@, neighbor.id),
                           !.cameFrom = MapSet(@, neighbor.id, r.current),
                           !.viaEdge = MapSet(@, neighbor.id, neighbor.edgeId),
                           !.gScore = MapSet(@, neighbor.id, tentativeG),
                           !.fScore = MapSet(@, neighbor.id,
                                             tentativeG + heuristicFunc(r, neighbor.id))],
                 neighbors, i + 1)

RECURSIVE reconstructPath(_, _)
reconstructPath(cameFrom, current) ==
  IF current \in DOMAIN cameFrom
  THEN Append(reconstructPath(cameFrom, cameFrom[current]), current)
  ELSE << current >>

\* The loop from its head to the next await or return.
LoopHead(r) ==
  IF Len(r.openSet) = 0
  THEN [r EXCEPT !.pc = "done", !.outcome = "nopath"]
  ELSE IF r.isPaused
  THEN [r EXCEPT !.pc = "paused"]
  ELSE LET current == LowestF(r)
           explored == r.nodesExplored + 1
       IN IF current = endVirtualId
          THEN [r EXCEPT !.pc = "done", !.outcome = "success",
                         !.current = current, !.nodesExplored = explored,
                         !.path = reconstructPath(r.cameFrom, current),
                         !.distance = OrZero(MapGet(r.gScore, current))]
          ELSE [r EXCEPT !.pc = "timer",
                         !.current = current, !.nodesExplored = explored,
                         !.openSet = SetDelete(@, current),
                         !.closedSet = @ \cup {current}]

\* After the animation timer: relax the neighbours, then the loop head.
AfterTimer(r) == LoopHead(RelaxScan(r, getAugmentedNeighbors(r, r.current), 1))

\* A runAStar whose closed set outlives the search: it starts from the
\* closed set of the search reported before.
NewRun_KeepsClosedSet(graphArg, blocked, traffic, paused, sp, ep) ==
  LET r0 == [graph |-> graphArg, blockedEdges |-> blocked, trafficJamEdges |-> traffic,
             isPaused |-> paused, startPoint |-> sp, endPoint |-> ep,
             augmentedNodes |-> AugmentedNodes(graphArg, sp, ep),
             augmentedEdges |-> AugmentedEdges(graphArg, sp, ep),
             openSet |-> << startVirtualId >>,
             closedSet |-> IF Len(reported) > 0 THEN reported[1].closedSet ELSE {},
             cameFrom |-> [ x \in {} |-> NULL ],
             viaEdge |-> [ x \in {} |-> NULL ],
             gScore |-> [ x \in {startVirtualId} |-> 0 ],
             fScore |-> [ x \in {startVirtualId} |-> 0 ],
             nodesExplored |-> 0, current |-> NULL,
             pc |-> "start", outcome |-> "none", path |-> << >>, distance |-> 0]
  IN LoopHead([r0 EXCEPT !.fScore = [ x \in {startVirtualId} |->
                                        heuristicFunc(r0, startVirtualId) ]])

\* runAStar from its call to its first await.
NewRun(graphArg, blocked, traffic, paused, sp, ep) ==
  LET r0 == [graph |-> graphArg, blockedEdges |-> blocked, trafficJamEdges |-> traffic,
             isPaused |-> paused, startPoint |-> sp, endPoint |-> ep,
             augmentedNodes |-> AugmentedNodes(graphArg, sp, ep),
             augmentedEdges |-> AugmentedEdges(graphArg, sp, ep),
             openSet |-> << startVirtualId >>, closedSet |-> {},
             cameFrom |-> [ x \in {} |-> NULL ],
             viaEdge |-> [ x \in {} |-> NULL ],
             gScore |-> [ x \in {startVirtualId} |-> 0 ],
             fScore |-> [ x \in {startVirtualId} |-> 0 ],
             nodesExplored |-> 0, current |-> NULL,
             pc |-> "start", outcome |-> "none", path |-> << >>, distance |-> 0]
  IN LoopHead([r0 EXCEPT !.fScore = [ x \in {startVirtualId} |->
                                        heuristicFunc(r0, startVirtualId) ]])

(***************************************************************************)
(* findPathBetweenNodesUndirected: breadth-first search over paths.        *)
(***************************************************************************)
\* A scan that queues every neighbour, visited or not.
RECURSIVE BfsEdgeScan_NoVisited(_, _, _, _, _)
BfsEdgeScan_NoVisited(graphArg, path, current, i, st) ==
  IF i > Len(graphArg.edges) THEN st
  ELSE LET edge == graphArg.edges[i]
           neighbor == IF edge.from = current THEN edge.to
                       ELSE IF edge.to = current THEN edge.from
                       ELSE NULL
       IN IF neighbor # NULL /\ neighbor # ""
          THEN BfsEdgeScan_NoVisited(graphArg, path, current, i + 1,
                           [queue |-> Append(st.queue, Append(path, neighbor)),
                            visited |-> st.visited \cup {neighbor}])
          ELSE BfsEdgeScan_NoVisited(graphArg, path, current, i + 1, st)

\* The scan of the edges for `current`, from edge i on; st = [queue, visited].
RECURSIVE BfsEdgeScan(_, _, _, _, _)
BfsEdgeScan(graphArg, path, current, i, st) ==
  IF i > Len(graphArg.edges) THEN st
  ELSE LET edge == graphArg.edges[i]
           neighbor == IF edge.from = current THEN edge.to
                       ELSE IF edge.to = current THEN edge.from
                       ELSE NULL
       IN IF neighbor # NULL /\ neighbor # "" /\ neighbor \notin st.visited
          THEN BfsEdgeScan(graphArg, path, current, i + 1,
                           [queue |-> Append(st.queue, Append(path, neighbor)),
                            visited |-> st.visited \cup {neighbor}])
          ELSE BfsEdgeScan(graphArg, path, current, i + 1, st)

RECURSIVE BfsLoop(_, _, _)
BfsLoop(graphArg, endNodeId, st) ==
  IF Len(st.queue) = 0 THEN << >>
  ELSE LET path == Head(st.queue)
           current == path[Len(path)]
       IN IF current = endNodeId THEN path
          ELSE BfsLoop(graphArg, endNodeId,
                       BfsEdgeScan(graphArg, path, current, 1,
                                   [queue |-> Tail(st.queue), visited |-> st.visited]))

\* The path, or the empty sequence for null.
findPathBetweenNodesUndirected(graphArg, startNodeId, endNodeId) ==
  IF Len(graphArg.edges) = 0 THEN << >>
  ELSE BfsLoop(graphArg, endNodeId,
               [queue |-> << << startNodeId >> >>, visited |-> {startNodeId}])

\* a || b for two search results.
OrPath(a, b) == IF Len(a) > 0 THEN a ELSE b

\* The ids of all edges joining a and b, in either direction.
EdgesBetween(graphArg, a, b) ==
  { graphArg.edges[i].id : i \in { j \in 1..Len(graphArg.edges) :
      \/ graphArg.edges[j].from = a /\ graphArg.edges[j].to = b
      \/ graphArg.edges[j].from = b /\ graphArg.edges[j].to = a } }

\* A resolution that takes the two roads to meet end to end.
RunPathNodes_Adjacent(graphArg, startEdgeInfo, endEdgeInfo) ==
  << startEdgeInfo.to, endEdgeInfo.from >>

\* A resolution that tries the from end of the first road before its to end.
RunPathNodes_FromEndFirst(graphArg, startEdgeInfo, endEdgeInfo) ==
  OrPath(findPathBetweenNodesUndirected(graphArg, startEdgeInfo.from, endEdgeInfo.to),
  OrPath(findPathBetweenNodesUndirected(graphArg, startEdgeInfo.to, endEdgeInfo.from),
  OrPath(findPathBetweenNodesUndirected(graphArg, startEdgeInfo.to, endEdgeInfo.to),
         findPathBetweenNodesUndirected(graphArg, startEdgeInfo.from, endEdgeInfo.from))))

\* handleMapClick, second road-status click on a different edge: the node
\* path joining the two edges, or the empty sequence.
RunPathNodes(graphArg, startEdgeInfo, endEdgeInfo) ==
  OrPath(findPathBetweenNodesUndirected(graphArg, startEdgeInfo.to, endEdgeInfo.from),
  OrPath(findPathBetweenNodesUndirected(graphArg, startEdgeInfo.from, endEdgeInfo.to),
  OrPath(findPathBetweenNodesUndirected(graphArg, startEdgeInfo.to, endEdgeInfo.to),
         findPathBetweenNodesUndirected(graphArg, startEdgeInfo.from, endEdgeInfo.from))))

\* edgesToModify of a second click whose search found pathNodes.
EdgesToModify(graphArg, startEdgeInfo, endEdgeInfo, pathNodes) ==
  {startEdgeInfo.edgeId, endEdgeInfo.edgeId}
    \cup UNION { EdgesBetween(graphArg, pathNodes[i], pathNodes[i + 1]) :
                 i \in 1..(Len(pathNodes) - 1) }

\* An edit set that adds the roads parallel to a road clicked twice.
RunEditSet_WithParallels(graphArg, startEdgeInfo, endEdgeInfo) ==
  IF startEdgeInfo.edgeId = endEdgeInfo.edgeId
  THEN {startEdgeInfo.edgeId}
         \cup EdgesBetween(graphArg, startEdgeInfo.from, startEdgeInfo.to)
  ELSE EdgesToModify(graphArg, startEdgeInfo, endEdgeInfo,
                     RunPathNodes(graphArg, startEdgeInfo, endEdgeInfo))

\* edgesToModify of a second click that is not aborted.
RunEditSet(graphArg, startEdgeInfo, endEdgeInfo) ==
  IF startEdgeInfo.edgeId = endEdgeInfo.edgeId
  THEN {startEdgeInfo.edgeId}
  ELSE EdgesToModify(graphArg, startEdgeInfo, endEdgeInfo,
                     RunPathNodes(graphArg, startEdgeInfo, endEdgeInfo))

\* An update of the blocked set that removes edges only on "clear".
ApplyBlocked_KeepsOnTraffic(currentBlocked, edgesToModify, statusToApply) ==
  IF statusToApply = "block" THEN currentBlocked \cup edgesToModify
  ELSE IF statusToApply = "traffic" THEN currentBlocked
  ELSE currentBlocked \ edgesToModify

\* The functional updates of the two overlay sets.
ApplyBlocked(currentBlocked, edgesToModify, statusToApply) ==
  IF statusToApply = "block" THEN currentBlocked \cup edgesToModify
  ELSE currentBlocked \ edgesToModify

\* An update of the congested set that removes edges only on "clear".
ApplyTraffic_KeepsOnBlock(currentTraffic, edgesToModify, statusToApply) ==
  IF statusToApply = "traffic" THEN currentTraffic \cup edgesToModify
  ELSE IF statusToApply = "block" THEN currentTraffic
  ELSE currentTraffic \ edgesToModify

ApplyTraffic(currentTraffic, edgesToModify, statusToApply) ==
  IF statusToApply = "traffic" THEN currentTraffic \cup edgesToModify
  ELSE currentTraffic \ edgesToModify

(***************************************************************************)
(* The component state and its handlers.                                   *)
(***************************************************************************)
EmptyGraph == [nodes |-> << >>, edges |-> << >>]

\* ManualGraphBuilder after construction: its useState initial values,
\* `clock`, the number of readings of Date.now() taken so far,
\* `fetching`, whether the fetch of the mount effect is still pending, and
\* `readers`, the FileReaders of importGraph whose onload has not run
\* yet, each with the file's object and the nodes, edges and history of
\* the render its handler closed over.
NewBuilder ==
  [nodes |-> << >>, edges |-> << >>, mode |-> "view", selectedNode |-> NULL,
   firstNode |-> NoNode, history |-> << >>, isBidirectional |-> TRUE, clock |-> 0,
   fetching |-> TRUE, readers |-> << >>]

\* No call of findPathBetweenNodesUndirected is being followed.
NoBfs ==
  [pc |-> "idle", startNodeId |-> NULL, endNodeId |-> NULL, queue |-> << >>,
   visited |-> {}, pushed |-> << >>, pops |-> 0, result |-> << >>,
   repeated |-> FALSE, last |-> << >>]

ZeroStats == [distance |-> 0, nodesExplored |-> 0, pathLength |-> 0]

\* The most invocations of runAStar alive at once.
MaxRuns == 2

\* nodesExplored is capped: a loop that never ends counts no further.
MaxExplored == 8

\* Where the user clicks.
ClickPoints ==
  { [lat |-> 0, lng |-> 0], [lat |-> 0, lng |-> 1], [lat |-> 0, lng |-> 2],
    [lat |-> 0, lng |-> 3], [lat |-> 1, lng |-> 1] }

NodeA == [id |-> "A", lat |-> 0, lng |-> 0]
NodeB == [id |-> "B", lat |-> 0, lng |-> 1]
NodeC == [id |-> "C", lat |-> 0, lng |-> 2]
NodeD == [id |-> "D", lat |-> 0, lng |-> 3]

\* Three nodes in a line, two two-way roads of 111 m.
LineGraph ==
  [nodes |-> << NodeA, NodeB, NodeC >>,
   edges |-> << [id |-> "A-B", from |-> "A", to |-> "B", distance |-> 1110,
                 bidirectional |-> TRUE],
                [id |-> "B-C", from |-> "B", to |-> "C", distance |-> 1110,
                 bidirectional |-> TRUE] >>]

\* A single one-way road A -> B.
OneWayGraph ==
  [nodes |-> << NodeA, NodeB >>,
   edges |-> << [id |-> "A-B", from |-> "A", to |-> "B", distance |-> 1110,
                 bidirectional |-> FALSE] >>]

\* The graphs the backend or an uploaded file supplies.
GraphFiles == { LineGraph, OneWayGraph }

EdgeIdsOf(graphArg) == { graphArg.edges[i].id : i \in 1..Len(graphArg.edges) }

Init ==
  /\ graph = EmptyGraph
  /\ startPoint = NoPoint
  /\ endPoint = NoPoint
  /\ blockedEdges = {}
  /\ trafficJamEdges = {}
  /\ mode = "select"
  /\ roadStatusMode = NULL
  /\ firstBlockNode = NoBlockNode
  /\ isRunning = FALSE
  /\ isPaused = FALSE
  /\ isComplete = FALSE
  /\ pathData = << >>
  /\ stats = ZeroStats
  /\ runs = << >>
  /\ reported = << >>
  /\ alerted = NULL
  /\ builder = NewBuilder
  /\ bfs = NoBfs

\* resetVisualization()
resetVisualization ==
  /\ pathData' = << >>
  /\ stats' = ZeroStats
  /\ isRunning' = FALSE
  /\ isPaused' = FALSE
  /\ isComplete' = FALSE
  /\ reported' = << >>

\* loadGraph(): the backend answered with `data`.
loadGraph(data) ==
  /\ "nodes" \in DOMAIN data
  /\ Len(data.nodes) > 0
  /\ graph' = data
  /\ resetVisualization
  /\ UNCHANGED << startPoint, endPoint, blockedEdges, trafficJamEdges, mode,
                  roadStatusMode, firstBlockNode, runs, alerted, builder, bfs >>

\* handleFileUpload: the file parsed to the object `data`.
handleFileUpload(data) ==
  IF "nodes" \notin DOMAIN data \/ "edges" \notin DOMAIN data
  THEN /\ alerted' = InvalidGraphAlert
       /\ UNCHANGED << graph, startPoint, endPoint, blockedEdges, trafficJamEdges,
                       mode, roadStatusMode, firstBlockNode, isRunning, isPaused,
                       isComplete, pathData, stats, runs, reported, builder, bfs >>
  ELSE /\ graph' = data
       /\ resetVisualization
       /\ UNCHANGED << startPoint, endPoint, blockedEdges, trafficJamEdges, mode,
                       roadStatusMode, firstBlockNode, runs, alerted, builder, bfs >>

\* The "Select Start/End" button.
SelectModeButton ==
  /\ ~isRunning
  /\ mode' = "select"
  /\ firstBlockNode' = NoBlockNode
  /\ roadStatusMode' = NULL
  /\ UNCHANGED << graph, startPoint, endPoint, blockedEdges, trafficJamEdges,
                  isRunning, isPaused, isComplete, pathData, stats, runs, reported, alerted, builder, bfs >>

\* The "Road Status" button.
RoadStatusModeButton ==
  /\ ~isRunning
  /\ mode' = "road-status"
  /\ firstBlockNode' = NoBlockNode
  /\ roadStatusMode' = IF roadStatusMode = NULL THEN "block" ELSE roadStatusMode
  /\ UNCHANGED << graph, startPoint, endPoint, blockedEdges, trafficJamEdges,
                  isRunning, isPaused, isComplete, pathData, stats, runs, reported, alerted, builder, bfs >>

\* The Block Road / Traffic Jam / Clear Status buttons.
ApplyButton(status) ==
  /\ mode = "road-status"
  /\ roadStatusMode' = status
  /\ firstBlockNode' = NoBlockNode
  /\ UNCHANGED << graph, startPoint, endPoint, blockedEdges, trafficJamEdges, mode,
                  isRunning, isPaused, isComplete, pathData, stats, runs, reported, alerted, builder, bfs >>

\* handleMapClick in road-status mode.
RoadStatusClick(latlng) ==
  LET result == findNearestEdgeAndProjection(latlng.lat, latlng.lng, graph)
      clickedEdge == result.edge
      startEdgeInfo == firstBlockNode
      endEdgeInfo == [edgeId |-> clickedEdge.id, from |-> clickedEdge.from,
                      to |-> clickedEdge.to]
      pathNodes == RunPathNodes(graph, startEdgeInfo, endEdgeInfo)
      sameEdge == startEdgeInfo.edgeId = endEdgeInfo.edgeId
      edgesToModify == RunEditSet(graph, startEdgeInfo, endEdgeInfo)
      statusToApply == IF roadStatusMode = "clear" THEN NULL ELSE roadStatusMode
  IN IF clickedEdge.id = NULL
     THEN /\ alerted' = NoRoadAlert
          /\ UNCHANGED << graph, startPoint, endPoint, blockedEdges, trafficJamEdges,
                          mode, roadStatusMode, firstBlockNode, isRunning, isPaused,
                          isComplete, pathData, stats, runs, reported, builder, bfs >>
     ELSE IF firstBlockNode = NoBlockNode
     THEN /\ firstBlockNode' = endEdgeInfo
          /\ UNCHANGED << graph, startPoint, endPoint, blockedEdges, trafficJamEdges,
                          mode, roadStatusMode, isRunning, isPaused, isComplete,
                          pathData, stats, runs, reported, alerted, builder, bfs >>
     ELSE IF ~sameEdge /\ Len(pathNodes) = 0
     THEN /\ firstBlockNode' = NoBlockNode
          /\ alerted' = NoRunPathAlert
          /\ UNCHANGED << graph, startPoint, endPoint, blockedEdges, trafficJamEdges,
                          mode, roadStatusMode, isRunning, isPaused, isComplete,
                          pathData, stats, runs, reported, builder, bfs >>
     ELSE /\ blockedEdges' = ApplyBlocked(blockedEdges, edgesToModify, statusToApply)
          /\ trafficJamEdges' = ApplyTraffic(trafficJamEdges, edgesToModify, statusToApply)
          /\ resetVisualization
          /\ firstBlockNode' = NoBlockNode
          /\ alerted' = AppliedAlert
          /\ UNCHANGED << graph, startPoint, endPoint, mode, roadStatusMode, runs, builder, bfs >>

\* handleMapClick in select mode.
SelectClick(latlng) ==
  LET result == findNearestEdgeAndProjection(latlng.lat, latlng.lng, graph)
  IN IF result.edge.id = NULL
     THEN /\ alerted' = NoRoadAlert
          /\ UNCHANGED << graph, startPoint, endPoint, blockedEdges, trafficJamEdges,
                          mode, roadStatusMode, firstBlockNode, isRunning, isPaused,
                          isComplete, pathData, stats, runs, reported, builder, bfs >>
     ELSE IF startPoint = NoPoint
     THEN /\ startPoint' = latlng
          /\ UNCHANGED << graph, endPoint, blockedEdges, trafficJamEdges, mode,
                          roadStatusMode, firstBlockNode, isRunning, isPaused,
                          isComplete, pathData, stats, runs, reported, alerted, builder, bfs >>
     ELSE IF endPoint = NoPoint
     THEN /\ endPoint' = latlng
          /\ UNCHANGED << graph, startPoint, blockedEdges, trafficJamEdges, mode,
                          roadStatusMode, firstBlockNode, isRunning, isPaused,
                          isComplete, pathData, stats, runs, reported, alerted, builder, bfs >>
     ELSE /\ startPoint' = latlng
          /\ endPoint' = NoPoint
          /\ resetVisualization
          /\ UNCHANGED << graph, blockedEdges, trafficJamEdges, mode, roadStatusMode,
                          firstBlockNode, runs, alerted, builder, bfs >>

\* A handleMapClick without the test of isRunning.
handleMapClick_IgnoresRunning(latlng) ==
  /\ Len(graph.nodes) > 0
  /\ IF mode = "road-status" /\ roadStatusMode # NULL THEN RoadStatusClick(latlng)
     ELSE IF mode = "select" THEN SelectClick(latlng)
     ELSE UNCHANGED vars

\* handleMapClick(latlng): the map is rendered only for a graph with nodes.
handleMapClick(latlng) ==
  /\ Len(graph.nodes) > 0
  /\ IF isRunning THEN UNCHANGED vars
     ELSE IF mode = "road-status" /\ roadStatusMode # NULL THEN RoadStatusClick(latlng)
     ELSE IF mode = "select" THEN SelectClick(latlng)
     ELSE UNCHANGED vars

\* toggleEdgeStatusByEdgeId(edgeId, null): the popup's Clear buttons, shown
\* on an edge that is blocked or congested.
toggleEdgeStatusByEdgeId(edgeId, status) ==
  /\ edgeId \in EdgeIdsOf(graph)
  /\ edgeId \in blockedEdges \cup trafficJamEdges
  /\ blockedEdges' = IF status = "block" THEN blockedEdges \cup {edgeId}
                     ELSE blockedEdges \ {edgeId}
  /\ trafficJamEdges' = IF status = "traffic" THEN trafficJamEdges \cup {edgeId}
                        ELSE trafficJamEdges \ {edgeId}
  /\ resetVisualization
  /\ UNCHANGED << graph, startPoint, endPoint, mode, roadStatusMode, firstBlockNode,
                  runs, alerted, builder, bfs >>

\* clearBlockedRoads: the Clear All button.
clearBlockedRoads ==
  /\ blockedEdges \cup trafficJamEdges # {}
  /\ ~isRunning
  /\ blockedEdges' = {}
  /\ trafficJamEdges' = {}
  /\ resetVisualization
  /\ UNCHANGED << graph, startPoint, endPoint, mode, roadStatusMode, firstBlockNode,
                  runs, alerted, builder, bfs >>

\* handleReset: the Reset button.
handleReset ==
  /\ resetVisualization
  /\ startPoint' = NoPoint
  /\ endPoint' = NoPoint
  /\ UNCHANGED << graph, blockedEdges, trafficJamEdges, mode, roadStatusMode,
                  firstBlockNode, runs, alerted, builder, bfs >>

\* The Pause / Resume button.
PauseButton ==
  /\ isRunning
  /\ isPaused' = ~isPaused
  /\ UNCHANGED << graph, startPoint, endPoint, blockedEdges, trafficJamEdges, mode,
                  roadStatusMode, firstBlockNode, isRunning, isComplete, pathData,
                  stats, runs, reported, alerted, builder, bfs >>

\* A runAStar that pushes the virtual nodes and connector edges onto the
\* arrays of the stored graph instead of onto copies of them.
StartAStar_SharesArrays ==
  /\ startPoint # NoPoint /\ endPoint # NoPoint /\ ~isRunning
  /\ Len(runs) < MaxRuns
  /\ isRunning' = TRUE
  /\ isComplete' = FALSE
  /\ isPaused' = FALSE
  /\ runs' = Append(runs, NewRun(graph, blockedEdges, trafficJamEdges, isPaused,
                                 startPoint, endPoint))
  /\ graph' = [nodes |-> AugmentedNodes(graph, startPoint, endPoint),
               edges |-> AugmentedEdges(graph, startPoint, endPoint)]
  /\ UNCHANGED << startPoint, endPoint, blockedEdges, trafficJamEdges, mode,
                  roadStatusMode, firstBlockNode, pathData, stats, reported, alerted, builder, bfs >>

\* The Start A* button: runAStar up to its first await.
StartAStar ==
  /\ startPoint # NoPoint /\ endPoint # NoPoint /\ ~isRunning
  /\ Len(runs) < MaxRuns
  /\ isRunning' = TRUE
  /\ isComplete' = FALSE
  /\ isPaused' = FALSE
  /\ runs' = Append(runs, NewRun(graph, blockedEdges, trafficJamEdges, isPaused,
                                 startPoint, endPoint))
  /\ UNCHANGED << graph, startPoint, endPoint, blockedEdges, trafficJamEdges, mode,
                  roadStatusMode, firstBlockNode, pathData, stats, reported, alerted, builder, bfs >>

RemoveAt(s, i) == SubSeq(s, 1, i - 1) \o SubSeq(s, i + 1, Len(s))

\* [lat, lng] of each node of the path.
PathCoords(r, path) ==
  [ i \in 1..Len(path) |->
      LET node == FindNode(r.augmentedNodes, path[i]) IN << node.lat, node.lng >> ]

\* What a finished invocation writes to the component state.
Finish(i, r) ==
  /\ runs' = RemoveAt(runs, i)
  /\ reported' = << r >>
  /\ isRunning' = FALSE
  /\ IF r.outcome = "success"
     THEN /\ pathData' = PathCoords(r, r.path)
          /\ stats' = [distance |-> MathRound(r.distance),
                       nodesExplored |-> r.nodesExplored,
                       pathLength |-> Len(r.path)]
          /\ isComplete' = TRUE
          /\ UNCHANGED alerted
     ELSE /\ stats' = [distance |-> 0, nodesExplored |-> r.nodesExplored,
                       pathLength |-> 0]
          /\ alerted' = NoPathFoundAlert
          /\ UNCHANGED << pathData, isComplete >>
  /\ UNCHANGED << graph, startPoint, endPoint, blockedEdges, trafficJamEdges, mode,
                  roadStatusMode, firstBlockNode, isPaused, builder, bfs >>

\* The animation timer of invocation i fires: one expansion step.
AStarStep(i) ==
  /\ runs[i].pc = "timer"
  /\ runs[i].nodesExplored < MaxExplored
  /\ LET r == AfterTimer(runs[i])
     IN IF r.pc = "done" THEN Finish(i, r)
        ELSE /\ runs' = [runs EXCEPT ![i] = r]
             /\ UNCHANGED << graph, startPoint, endPoint, blockedEdges,
                             trafficJamEdges, mode, roadStatusMode, firstBlockNode,
                             isRunning, isPaused, isComplete, pathData, stats,
                             reported, alerted, builder, bfs >>

\* The 100 ms timer of `while (isPaused) await ...` fires: isPaused is the
\* constant of the closure, so the invocation waits again.
PausedPoll(i) ==
  /\ runs[i].pc = "paused"
  /\ runs[i].isPaused
  /\ UNCHANGED vars

\* Every handler of the component and every timer of its searches.
Next ==
  \/ \E data \in GraphFiles : loadGraph(data)
  \/ \E data \in GraphFiles : handleFileUpload(data)
  \/ SelectModeButton
  \/ RoadStatusModeButton
  \/ \E status \in {"block", "traffic", "clear"} : ApplyButton(status)
  \/ \E latlng \in ClickPoints : handleMapClick(latlng)
  \/ \E edgeId \in EdgeIdsOf(graph) : toggleEdgeStatusByEdgeId(edgeId, NULL)
  \/ clearBlockedRoads
  \/ handleReset
  \/ PauseButton
  \/ StartAStar
  \/ \E i \in 1..Len(runs) : AStarStep(i)
  \/ \E i \in 1..Len(runs) : PausedPoll(i)

Spec == Init /\ [][Next]_vars

(***************************************************************************)
(* SpecEdit: the component from construction, under every handler that     *)
(* loads a graph, selects points or edits the overlay (no search runs).    *)
(***************************************************************************)
NextEdit ==
  \/ \E data \in GraphFiles : loadGraph(data)
  \/ \E data \in GraphFiles : handleFileUpload(data)
  \/ SelectModeButton
  \/ RoadStatusModeButton
  \/ \E status \in {"block", "traffic", "clear"} : ApplyButton(status)
  \/ \E latlng \in ClickPoints : handleMapClick(latlng)
  \/ \E edgeId \in EdgeIdsOf(graph) : toggleEdgeStatusByEdgeId(edgeId, NULL)
  \/ clearBlockedRoads
  \/ handleReset

SpecEdit == Init /\ [][NextEdit]_vars

(***************************************************************************)
(* SpecSearch: one search at a time on each graph of a family, under each  *)
(* overlay and each pair of clicked points.  Every road of the family is   *)
(* as long as the distance between its ends.                               *)
(***************************************************************************)
MaxEdges == 2

FamilyNodes == << NodeA, NodeB, NodeC >>

ChainNodes == << NodeA, NodeB, NodeC, NodeD >>

FamilyEdgeIds == << "e1", "e2", "e3", "e4", "e5" >>

EdgeChoices ==
  { c \in [from : {"A", "B", "C"}, to : {"A", "B", "C"}, bidirectional : BOOLEAN] :
      c.from # c.to }

FamilyEdge(nodes, c, i) ==
  LET nFrom == FindNode(nodes, c.from)
      nTo == FindNode(nodes, c.to)
  IN [id |-> FamilyEdgeIds[i], from |-> c.from, to |-> c.to,
      distance |-> haversineDistance(nFrom.lat, nFrom.lng, nTo.lat, nTo.lng),
      bidirectional |-> c.bidirectional]

\* Three nodes in a line and every array of at most MaxEdges roads between
\* them, each one-way or two-way.
SmallFamily ==
  UNION { { [nodes |-> FamilyNodes,
             edges |-> [ i \in 1..n |-> FamilyEdge(FamilyNodes, cs[i], i) ]] :
            cs \in [1..n -> EdgeChoices] } : n \in 1..MaxEdges }

\* A second road beside the middle one of the chain, or past it.
DetourChoices ==
  { c \in [from : {"B", "C"}, to : {"B", "C", "D"}, bidirectional : BOOLEAN] :
      c.from # c.to }

\* Four nodes in a line joined by the chain A-B, B-C, C-D, whose middle
\* road is one-way or two-way, alone or with one more road.
ChainFamily ==
  LET chain(b) ==
        << FamilyEdge(ChainNodes, [from |-> "A", to |-> "B", bidirectional |-> TRUE], 1),
           FamilyEdge(ChainNodes, [from |-> "B", to |-> "C", bidirectional |-> b], 2),
           FamilyEdge(ChainNodes, [from |-> "C", to |-> "D", bidirectional |-> TRUE], 3) >>
  IN { [nodes |-> ChainNodes, edges |-> chain(b)] : b \in BOOLEAN }
       \cup { [nodes |-> ChainNodes,
                edges |-> Append(chain(b), FamilyEdge(ChainNodes, c, 4))] :
               b \in BOOLEAN, c \in DetourChoices }

GraphFamily == SmallFamily \cup ChainFamily

InitSearch ==
  /\ graph \in GraphFamily
  /\ startPoint \in ClickPoints
  /\ endPoint \in ClickPoints
  /\ blockedEdges \in SUBSET EdgeIdsOf(graph)
  /\ trafficJamEdges \in SUBSET (EdgeIdsOf(graph) \ blockedEdges)
  /\ mode = "select"
  /\ roadStatusMode = NULL
  /\ firstBlockNode = NoBlockNode
  /\ isRunning = FALSE
  /\ isPaused = FALSE
  /\ isComplete = FALSE
  /\ pathData = << >>
  /\ stats = ZeroStats
  /\ runs = << >>
  /\ reported = << >>
  /\ alerted = NULL
  /\ builder = NewBuilder
  /\ bfs = NoBfs

NextSearch ==
  \/ StartAStar
  \/ \E i \in 1..Len(runs) : AStarStep(i)

SpecSearch == InitSearch /\ [][NextSearch]_vars

(***************************************************************************)
(* SpecControl: a loaded graph with both points selected on end nodes, under *)
(* the controls of a search: Start, Pause/Resume, Reset, the popups'       *)
(* Clear buttons, map clicks, and the timers of the running searches.      *)
(***************************************************************************)
\* The clicks of the scenarios: on the first and on the last node.
NodePoints(graphArg) ==
  { [lat |-> graphArg.nodes[i].lat, lng |-> graphArg.nodes[i].lng] :
      i \in {1, Len(graphArg.nodes)} }

\* The overlays the scenarios start from: none, one road blocked, one
\* road congested.
ScenarioOverlays(graphArg) ==
  { [blocked |-> {}, traffic |-> {}] }
    \cup { [blocked |-> {id}, traffic |-> {}] : id \in EdgeIdsOf(graphArg) }
    \cup { [blocked |-> {}, traffic |-> {id}] : id \in EdgeIdsOf(graphArg) }

InitControl ==
  /\ graph \in GraphFiles
  /\ startPoint \in NodePoints(graph)
  /\ endPoint \in NodePoints(graph)
  /\ \E o \in ScenarioOverlays(graph) :
        blockedEdges = o.blocked /\ trafficJamEdges = o.traffic
  /\ mode = "select"
  /\ roadStatusMode = NULL
  /\ firstBlockNode = NoBlockNode
  /\ isRunning = FALSE
  /\ isPaused = FALSE
  /\ isComplete = FALSE
  /\ pathData = << >>
  /\ stats = ZeroStats
  /\ runs = << >>
  /\ reported = << >>
  /\ alerted = NULL
  /\ builder = NewBuilder
  /\ bfs = NoBfs

NextControl ==
  \/ StartAStar
  \/ PauseButton
  \/ handleReset
  \/ \E latlng \in NodePoints(graph) : handleMapClick(latlng)
  \/ \E edgeId \in EdgeIdsOf(graph) : toggleEdgeStatusByEdgeId(edgeId, NULL)
  \/ \E i \in 1..Len(runs) : AStarStep(i)
  \/ \E i \in 1..Len(runs) : PausedPoll(i)

SpecControl == InitControl /\ [][NextControl]_vars

TypeOK ==
  /\ graph \in GraphFiles \cup GraphFamily \cup {EmptyGraph}
  /\ startPoint \in ClickPoints \cup {NoPoint}
  /\ endPoint \in ClickPoints \cup {NoPoint}
  /\ mode \in {"select", "road-status"}
  /\ roadStatusMode \in {NULL, "block", "traffic", "clear"}
  /\ isRunning \in BOOLEAN /\ isPaused \in BOOLEAN /\ isComplete \in BOOLEAN
  /\ Len(runs) <= MaxRuns
  /\ Len(reported) <= 1

(***************************************************************************)
(* Properties of the reported route.                                       *)
(***************************************************************************)
\* The indices of the edges of the search's augmented graph over which a
\* step from node a reaches node b.
HopEdges(r, a, b) ==
  { j \in 1..Len(r.augmentedEdges) : EdgeNeighbor(r.augmentedEdges[j], a) = b }

Min2(a, b) == IF a <= b THEN a ELSE b

\* The least of the costs in the set S, Infinity for the empty set.
MinOf(S) == IF S = {} THEN Infinity ELSE CHOOSE x \in S : \A y \in S : x <= y

\* The index of the first node with the id in the augmented node array.
NodeIndex(r, id) ==
  CHOOSE i \in 1..Len(r.augmentedNodes) :
    r.augmentedNodes[i].id = id /\ \A j \in 1..(i - 1) : r.augmentedNodes[j].id # id

\* The least cost into node i over one more edge; d[u] is the cost so far
\* of the u-th node.
CostInto(r, d, i) ==
  MinOf({ d[p[1]] + EdgeWeight(r, r.augmentedEdges[p[2]]) :
          p \in { q \in (1..Len(d)) \X (1..Len(r.augmentedEdges)) :
                    /\ d[q[1]] < Infinity
                    /\ ~EdgeSkipped(r, r.augmentedEdges[q[2]])
                    /\ EdgeNeighbor(r.augmentedEdges[q[2]], r.augmentedNodes[q[1]].id)
                         = r.augmentedNodes[i].id } })

\* The first i costs of the next round.
RECURSIVE CostRound(_, _, _)
CostRound(r, d, i) ==
  IF i = 0 THEN << >>
  ELSE Append(CostRound(r, d, i - 1), Min2(d[i], CostInto(r, d, i)))

RECURSIVE CheapestCosts(_, _, _)
CheapestCosts(r, d, n) ==
  IF n = 0 THEN d ELSE CheapestCosts(r, CostRound(r, d, Len(d)), n - 1)

RECURSIVE StartCosts(_, _)
StartCosts(r, i) ==
  IF i = 0 THEN << >>
  ELSE Append(StartCosts(r, i - 1),
              IF i = NodeIndex(r, startVirtualId) THEN 0 ELSE Infinity)

\* The least cost from the bound start to the bound end, Infinity if none.
CheapestCost(r) ==
  CheapestCosts(r, StartCosts(r, Len(r.augmentedNodes)),
                Len(r.augmentedNodes))[NodeIndex(r, endVirtualId)]

\* C3: the cost of a reported route is the least cost of any way from the
\* bound start to the bound end in the augmented graph under the direction
\* rule and the overlay (every road of the family costs at least the
\* distance between its ends, so the heuristic is consistent).
C3_ReportedRouteIsCheapest ==
  \A k \in 1..Len(reported) :
    reported[k].outcome = "success" => reported[k].distance = CheapestCost(reported[k])

(***************************************************************************)
(* The cost of a route, hop by hop.                                        *)
(***************************************************************************)
\* The edge of the augmented graph with the id.
EdgeById(r, id) ==
  r.augmentedEdges[CHOOSE j \in 1..Len(r.augmentedEdges) : r.augmentedEdges[j].id = id]

\* What the hop into path[i] costs: the distance of the edge the parent
\* pointer was set over, three times that for a congested road.
HopCost(r, i) ==
  LET edge == EdgeById(r, r.viaEdge[r.path[i]])
  IN IF StartsWithVirtual(edge.id) THEN edge.distance
     ELSE IF edge.id \in r.trafficJamEdges THEN 3 * edge.distance
     ELSE edge.distance

RECURSIVE RouteCost(_, _)
RouteCost(r, i) == IF i <= 1 THEN 0 ELSE RouteCost(r, i - 1) + HopCost(r, i)

\* C7 (PathfindingVisualizer.js): the distance shown for a found route is
\* the rounded sum of the costs of the hops of the route (a congested road three times its distance, a
\* connector its distance), which is the gScore of the end node.
C7_TotalIsSumOfHopCosts ==
  \A k \in 1..Len(reported) :
    LET r == reported[k]
    IN r.outcome = "success" =>
         /\ MapGet(r.gScore, endVirtualId) = RouteCost(r, Len(r.path))
         /\ r.distance = RouteCost(r, Len(r.path))
         /\ stats.distance = MathRound(RouteCost(r, Len(r.path)))

\* A route is reported that goes over a congested road.
C7_Witness ==
  \E k \in 1..Len(reported) :
    LET r == reported[k]
    IN /\ r.outcome = "success"
       /\ \E i \in 2..Len(r.path) : r.viaEdge[r.path[i]] \in r.trafficJamEdges
       /\ stats.distance > 0

(***************************************************************************)
(* PathfindingDashboard.js: the variant of the component that keeps the    *)
(* graph in a graphology Graph and calls the library's astar.  It binds a  *)
(* click to the nearest node, has no connector edges and no search loop.   *)
(* The library is not part of the repository: its answer is any route of   *)
(* the graph.  The overlay is any the road-status clicks can leave.        *)
(***************************************************************************)
\* loadAndSetGraph(data): the nodes, and the edges both of whose ends are
\* nodes; an edge is directed exactly when bidirectional is false.
DashboardGraph(data) ==
  [nodes |-> data.nodes,
   edges |-> SelectSeq(data.edges,
               LAMBDA edge : /\ FindNode(data.nodes, edge.from).id # NULL
                             /\ FindNode(data.nodes, edge.to).id # NULL)]

\* findNearestNode(lat, lng): the first node at the least distance.
RECURSIVE NearestNodeScan(_, _, _, _, _, _)
NearestNodeScan(graphArg, lat, lng, i, nearestNode, minDistance) ==
  IF i > Len(graphArg.nodes) THEN nearestNode
  ELSE LET node == graphArg.nodes[i]
           dist == haversineDistance(lat, lng, node.lat, node.lng)
       IN IF dist < minDistance
          THEN NearestNodeScan(graphArg, lat, lng, i + 1, node.id, dist)
          ELSE NearestNodeScan(graphArg, lat, lng, i + 1, nearestNode, minDistance)

findNearestNode(graphArg, lat, lng) ==
  NearestNodeScan(graphArg, lat, lng, 1, NULL, Infinity)

\* graph.edge(a, b): the index of the first edge from a to b, directed or
\* undirected; 0 when there is none.
GraphEdge(graphArg, a, b) ==
  LET js == { j \in 1..Len(graphArg.edges) : EdgeNeighbor(graphArg.edges[j], a) = b }
  IN IF js = {} THEN 0 ELSE CHOOSE j \in js : \A k \in js : j <= k

\* The sequences of distinct node ids of the graph.
SimpleRoutes(graphArg) ==
  LET ids == { graphArg.nodes[i].id : i \in 1..Len(graphArg.nodes) }
  IN UNION { { p \in [1..n -> ids] : \A i, j \in 1..n : i # j => p[i] # p[j] } :
             n \in 1..Len(graphArg.nodes) }

\* astar(graph, source, target, weight, heuristic): the routes the call can
\* return, those over edges whose weight is not Infinity; none means null.
astar(graphArg, blocked, source, target) ==
  { p \in SimpleRoutes(graphArg) :
      /\ p[1] = source /\ p[Len(p)] = target
      /\ \A i \in 1..(Len(p) - 1) :
           \E j \in 1..Len(graphArg.edges) :
             /\ EdgeNeighbor(graphArg.edges[j], p[i]) = p[i + 1]
             /\ graphArg.edges[j].id \notin blocked }

\* totalDistance: the sum over the hops of path[1..i] of the distance
\* attribute of graph.edge(path[k], path[k + 1]).
RECURSIVE totalDistance(_, _, _)
totalDistance(graphArg, path, i) ==
  IF i <= 1 THEN 0
  ELSE LET j == GraphEdge(graphArg, path[i - 1], path[i])
       IN totalDistance(graphArg, path, i - 1)
            + (IF j = 0 THEN 0 ELSE graphArg.edges[j].distance)

\* loadAndSetGraph(data) of a backend answer or an uploaded file.
loadAndSetGraph(data) ==
  IF "nodes" \notin DOMAIN data \/ "edges" \notin DOMAIN data
  THEN /\ alerted' = DashboardInvalidAlert
       /\ UNCHANGED << visualizerVars, builder >>
  ELSE /\ graph' = DashboardGraph(data)
       /\ resetVisualization
       /\ UNCHANGED << startPoint, endPoint, blockedEdges, trafficJamEdges, mode,
                       roadStatusMode, firstBlockNode, runs, alerted, builder, bfs >>

\* handleMapClick in select mode: the map is rendered for graph.order > 0.
DashboardSelectClick(latlng) ==
  /\ Len(graph.nodes) > 0
  /\ ~isRunning /\ mode = "select"
  /\ IF startPoint = NoPoint
     THEN /\ startPoint' = latlng
          /\ UNCHANGED << graph, endPoint, blockedEdges, trafficJamEdges, mode,
                          roadStatusMode, firstBlockNode, isRunning, isPaused,
                          isComplete, pathData, stats, runs, reported, alerted, builder, bfs >>
     ELSE IF endPoint = NoPoint
     THEN /\ endPoint' = latlng
          /\ UNCHANGED << graph, startPoint, blockedEdges, trafficJamEdges, mode,
                          roadStatusMode, firstBlockNode, isRunning, isPaused,
                          isComplete, pathData, stats, runs, reported, alerted, builder, bfs >>
     ELSE /\ startPoint' = latlng
          /\ endPoint' = NoPoint
          /\ resetVisualization
          /\ UNCHANGED << graph, blockedEdges, trafficJamEdges, mode, roadStatusMode,
                          firstBlockNode, runs, alerted, builder, bfs >>

\* runAStar of the variant: one synchronous call.
DashboardRunAStar ==
  /\ startPoint # NoPoint /\ endPoint # NoPoint
  /\ LET startNode == findNearestNode(graph, startPoint.lat, startPoint.lng)
         endNode == findNearestNode(graph, endPoint.lat, endPoint.lng)
         routes == astar(graph, blockedEdges, startNode, endNode)
     IN IF startNode = NULL \/ endNode = NULL
        THEN /\ alerted' = NoNodeAlert
             /\ UNCHANGED << graph, startPoint, endPoint, blockedEdges, trafficJamEdges,
                             mode, roadStatusMode, firstBlockNode, isRunning, isPaused,
                             isComplete, pathData, stats, runs, reported, builder, bfs >>
        ELSE IF routes = {}
        THEN /\ stats' = ZeroStats
             /\ alerted' = DashboardNoPathAlert
             /\ reported' = << [outcome |-> "nopath", path |-> << >>, graph |-> graph,
                                blockedEdges |-> blockedEdges,
                                trafficJamEdges |-> trafficJamEdges] >>
             /\ UNCHANGED << graph, startPoint, endPoint, blockedEdges, trafficJamEdges,
                             mode, roadStatusMode, firstBlockNode, isRunning, isPaused,
                             isComplete, pathData, runs, builder, bfs >>
        ELSE \E path \in routes :
               /\ pathData' = [ i \in 1..Len(path) |->
                                 << FindNode(graph.nodes, path[i]).lat,
                                    FindNode(graph.nodes, path[i]).lng >> ]
               /\ stats' = [distance |-> MathRound(totalDistance(graph, path, Len(path))),
                            nodesExplored |-> 0, pathLength |-> Len(path)]
               /\ isComplete' = TRUE
               /\ reported' = << [outcome |-> "success", path |-> path, graph |-> graph,
                                  blockedEdges |-> blockedEdges,
                                  trafficJamEdges |-> trafficJamEdges] >>
               /\ UNCHANGED << graph, startPoint, endPoint, blockedEdges,
                               trafficJamEdges, mode, roadStatusMode, firstBlockNode,
                               isRunning, isPaused, runs, alerted, builder, bfs >>

InitDashboard ==
  /\ graph \in { DashboardGraph(data) : data \in GraphFiles }
  /\ startPoint = NoPoint
  /\ endPoint = NoPoint
  /\ blockedEdges \in SUBSET EdgeIdsOf(graph)
  /\ trafficJamEdges \in SUBSET (EdgeIdsOf(graph) \ blockedEdges)
  /\ mode = "select"
  /\ roadStatusMode = NULL
  /\ firstBlockNode = NoBlockNode
  /\ isRunning = FALSE
  /\ isPaused = FALSE
  /\ isComplete = FALSE
  /\ pathData = << >>
  /\ stats = ZeroStats
  /\ runs = << >>
  /\ reported = << >>
  /\ alerted = NULL
  /\ builder = NewBuilder
  /\ bfs = NoBfs

NextDashboard ==
  \/ \E data \in GraphFiles : loadAndSetGraph(data)
  \/ \E latlng \in ClickPoints : DashboardSelectClick(latlng)
  \/ DashboardRunAStar
  \/ handleReset
  \/ clearBlockedRoads

SpecDashboard == InitDashboard /\ [][NextDashboard]_vars

\* What the hop into path[i] costs under the overlay: the distance of the
\* edge of the hop, three times that for a congested road.
DashboardHopCost(r, i) ==
  LET j == GraphEdge(r.graph, r.path[i - 1], r.path[i])
      edge == r.graph.edges[j]
  IN IF edge.id \in r.trafficJamEdges THEN 3 * edge.distance ELSE edge.distance

RECURSIVE DashboardRouteCost(_, _)
DashboardRouteCost(r, i) ==
  IF i <= 1 THEN 0 ELSE DashboardRouteCost(r, i - 1) + DashboardHopCost(r, i)

\* C7 (PathfindingDashboard.js): the distance shown for a found route is the
\* rounded sum of the costs of its hops, a congested road costing three
\* times its distance.
C7_DashboardTotalIsSumOfHopCosts ==
  \A k \in 1..Len(reported) :
    reported[k].outcome = "success"
      => stats.distance = MathRound(DashboardRouteCost(reported[k], Len(reported[k].path)))

(***************************************************************************)
(* The scenarios on the line graph and on the one-way road.                *)
(***************************************************************************)
PointA == [lat |-> NodeA.lat, lng |-> NodeA.lng]
PointB == [lat |-> NodeB.lat, lng |-> NodeB.lng]
PointC == [lat |-> NodeC.lat, lng |-> NodeC.lng]

\* A search on graphArg from sp to ep under the overlay.
IsSearch(r, graphArg, sp, ep, blocked, traffic) ==
  /\ r.graph = graphArg /\ r.startPoint = sp /\ r.endPoint = ep
  /\ r.blockedEdges = blocked /\ r.trafficJamEdges = traffic

\* C4: on the line A-B-C with A-B blocked, the search from the click on A
\* to the click on C reports that no path was found.
C4_BlockedLineHasNoPath ==
  \A k \in 1..Len(reported) :
    IsSearch(reported[k], LineGraph, PointA, PointC, {"A-B"}, {})
      => reported[k].outcome = "nopath"

\* C5: on the single one-way road A -> B, the search from the click on B to
\* the click on A reports that no path was found, and the search from the
\* click on A to the click on B reports a route.
C5_OneWayIsOneDirectional ==
  \A k \in 1..Len(reported) :
    /\ IsSearch(reported[k], OneWayGraph, PointB, PointA, {}, {})
         => reported[k].outcome = "nopath"
    /\ IsSearch(reported[k], OneWayGraph, PointA, PointB, {}, {})
         => reported[k].outcome = "success"

\* C6: on the line A-B-C from the click on A to the click on C, the route
\* shown costs about 222 m under no overlay and about 444 m when B-C is
\* congested (to within a metre).
C6_CongestedLineCosts444 ==
  \A k \in 1..Len(reported) :
    /\ IsSearch(reported[k], LineGraph, PointA, PointC, {}, {})
         => reported[k].outcome = "success" /\ Abs(stats.distance - 222) <= 1
    /\ IsSearch(reported[k], LineGraph, PointA, PointC, {}, {"B-C"})
         => reported[k].outcome = "success" /\ Abs(stats.distance - 444) <= 1

(***************************************************************************)
(* Termination, pause and cancel.                                          *)
(***************************************************************************)
\* SpecPause: a loaded graph with both points selected, under the Start and
\* Pause/Resume buttons and the timers of the search.
NextPause ==
  \/ StartAStar
  \/ PauseButton
  \/ \E i \in 1..Len(runs) : AStarStep(i)
  \/ \E i \in 1..Len(runs) : PausedPoll(i)

SpecPause == InitControl /\ [][NextPause]_vars

\* C8: every started search stops.  An iteration of the loop moves one
\* node from the open set to the closed set for good, so a search that
\* stops has counted no more iterations than its augmented graph has
\* nodes; and a search waits at `while (isPaused)` only while the component
\* is paused, so that Resume lets it go on.
C8_EverySearchStops ==
  \A i \in 1..Len(runs) :
    /\ runs[i].nodesExplored <= Len(runs[i].augmentedNodes)
    /\ runs[i].pc = "paused" => isPaused

\* C9: while the component is paused no search expands a node: no step
\* taken while isRunning and isPaused hold changes a search loop.
C9_NoExpansionWhilePaused == [][(isRunning /\ isPaused) => runs' = runs]_vars

\* C10: a cancelled search expands no further node and never reports: no
\* step taken while isRunning is false changes or ends a search loop that
\* is still alive.
C10_CancelledSearchIsAborted ==
  [][(~isRunning /\ Len(runs) > 0)
       => /\ Len(runs') >= Len(runs)
          /\ \A i \in 1..Len(runs) : runs'[i] = runs[i]]_vars

(***************************************************************************)
(* SpecRoadStatus: a loaded graph in road-status mode, under the status    *)
(* buttons, the map clicks of a run, the popups' Clear buttons, Clear All  *)
(* and file uploads.                                                       *)
(***************************************************************************)
\* Two roads that no road joins.
TwoRoadsGraph ==
  [nodes |-> ChainNodes,
   edges |-> << [id |-> "A-B", from |-> "A", to |-> "B", distance |-> 1110,
                 bidirectional |-> TRUE],
                [id |-> "C-D", from |-> "C", to |-> "D", distance |-> 1110,
                 bidirectional |-> TRUE] >>]

\* The line with a second road between A and B, and a road on to D.
ParallelGraph ==
  [nodes |-> ChainNodes,
   edges |-> << [id |-> "A-B", from |-> "A", to |-> "B", distance |-> 1110,
                 bidirectional |-> TRUE],
                [id |-> "B-A", from |-> "B", to |-> "A", distance |-> 1110,
                 bidirectional |-> FALSE],
                [id |-> "B-C", from |-> "B", to |-> "C", distance |-> 1110,
                 bidirectional |-> TRUE],
                [id |-> "C-D", from |-> "C", to |-> "D", distance |-> 1110,
                 bidirectional |-> TRUE] >>]

RoadFiles == { LineGraph, TwoRoadsGraph, ParallelGraph }

InitRoadStatus ==
  /\ graph \in RoadFiles
  /\ startPoint = NoPoint
  /\ endPoint = NoPoint
  /\ blockedEdges = {}
  /\ trafficJamEdges = {}
  /\ mode = "road-status"
  /\ roadStatusMode = "block"
  /\ firstBlockNode = NoBlockNode
  /\ isRunning = FALSE
  /\ isPaused = FALSE
  /\ isComplete = FALSE
  /\ pathData = << >>
  /\ stats = ZeroStats
  /\ runs = << >>
  /\ reported = << >>
  /\ alerted = NULL
  /\ builder = NewBuilder
  /\ bfs = NoBfs

NextRoadStatus ==
  \/ \E data \in RoadFiles : handleFileUpload(data)
  \/ \E status \in {"block", "traffic", "clear"} : ApplyButton(status)
  \/ \E latlng \in ClickPoints : handleMapClick(latlng)
  \/ \E edgeId \in EdgeIdsOf(graph) : toggleEdgeStatusByEdgeId(edgeId, NULL)
  \/ clearBlockedRoads

SpecRoadStatus == InitRoadStatus /\ [][NextRoadStatus]_vars

\* The edge a click resolves to, as the record a run keeps of it.
ClickedEdgeInfo(latlng) ==
  LET e == findNearestEdgeAndProjection(latlng.lat, latlng.lng, graph).edge
  IN [edgeId |-> e.id, from |-> e.from, to |-> e.to]

\* The click is the second click of a road-status run.
IsSecondClick(latlng) ==
  /\ Len(graph.nodes) > 0 /\ ~isRunning
  /\ mode = "road-status" /\ roadStatusMode # NULL
  /\ firstBlockNode # NoBlockNode
  /\ ClickedEdgeInfo(latlng).edgeId # NULL

\* The nodes joined to the nodes of S by one road, in either direction.
Around(graphArg, S) ==
  S \cup { graphArg.edges[j].to : j \in { k \in 1..Len(graphArg.edges) :
                                            graphArg.edges[k].from \in S } }
    \cup { graphArg.edges[j].from : j \in { k \in 1..Len(graphArg.edges) :
                                              graphArg.edges[k].to \in S } }

RECURSIVE Component(_, _)
Component(graphArg, S) ==
  IF Around(graphArg, S) = S THEN S ELSE Component(graphArg, Around(graphArg, S))

\* Node b can be reached from node a over roads taken in either direction.
Joined(graphArg, a, b) == b \in Component(graphArg, {a})

\* Some end of the first road is joined to some end of the second.
RoadsJoined(graphArg, first, second) ==
  \E a \in {first.from, first.to} : \E b \in {second.from, second.to} :
     Joined(graphArg, a, b)

\* C11: a second click on a different edge that no undirected path joins
\* to the first one changes neither overlay set and discards the pending
\* first click.
C11_UnjoinedRunChangesNothing ==
  [][\A latlng \in ClickPoints :
       ( /\ IsSecondClick(latlng)
         /\ ClickedEdgeInfo(latlng).edgeId # firstBlockNode.edgeId
         /\ ~RoadsJoined(graph, firstBlockNode, ClickedEdgeInfo(latlng))
         /\ handleMapClick(latlng) )
       => /\ blockedEdges' = blockedEdges
          /\ trafficJamEdges' = trafficJamEdges
          /\ firstBlockNode' = NoBlockNode
          /\ alerted' = NoRunPathAlert]_vars

\* A run was aborted on the two unjoined roads while one of them was blocked.
C11_Witness ==
  /\ graph = TwoRoadsGraph
  /\ alerted = NoRunPathAlert
  /\ firstBlockNode = NoBlockNode
  /\ blockedEdges = {"A-B"}

\* The status an edge id has in the overlay.
StatusOf(id, blocked, traffic) ==
  [blocked |-> id \in blocked, congested |-> id \in traffic]

\* Every edge id that the graph or the overlay names.
KnownEdgeIds == EdgeIdsOf(graph) \cup blockedEdges \cup trafficJamEdges

\* C12: a second click on the edge of the first click gives that edge id
\* the chosen status (none for Clear) and changes the status of no other
\* edge id, parallel roads included.
C12_SameEdgeEditsOneId ==
  [][\A latlng \in ClickPoints :
       ( /\ IsSecondClick(latlng)
         /\ ClickedEdgeInfo(latlng).edgeId = firstBlockNode.edgeId
         /\ handleMapClick(latlng) )
       => /\ StatusOf(firstBlockNode.edgeId, blockedEdges', trafficJamEdges')
               = [blocked |-> roadStatusMode = "block",
                  congested |-> roadStatusMode = "traffic"]
          /\ \A id \in KnownEdgeIds \ {firstBlockNode.edgeId} :
               StatusOf(id, blockedEdges', trafficJamEdges')
                 = StatusOf(id, blockedEdges, trafficJamEdges)]_vars

\* Road A-B was clicked twice under Block while a second road joins A and B.
C12_Witness ==
  /\ graph = ParallelGraph
  /\ alerted = AppliedAlert
  /\ blockedEdges = {"A-B"}
  /\ trafficJamEdges = {}

\* PathfindingDashboard.js, handleMapClick: each id of the edit set is
\* deleted from both sets and then added to the set of the status.
DashboardOverlay(blocked, traffic, edgeIdsToModify, statusToApply) ==
  [blocked |-> (blocked \ edgeIdsToModify)
                 \cup (IF statusToApply = "block" THEN edgeIdsToModify ELSE {}),
   traffic |-> (traffic \ edgeIdsToModify)
                 \cup (IF statusToApply = "traffic" THEN edgeIdsToModify ELSE {})]

\* The second click completes a run: on the same road, or on a joined one.
RunSucceeds(latlng) ==
  /\ IsSecondClick(latlng)
  /\ \/ ClickedEdgeInfo(latlng).edgeId = firstBlockNode.edgeId
     \/ RoadsJoined(graph, firstBlockNode, ClickedEdgeInfo(latlng))

\* C13: after a successful run every id of the edit set has the applied
\* status and only that (none for Clear), every other id has the status it
\* had, and the update of PathfindingDashboard.js gives the same two sets.
C13_RunSetsStatusOfEditSetOnly ==
  [][\A latlng \in ClickPoints :
       (RunSucceeds(latlng) /\ handleMapClick(latlng))
       => LET E == RunEditSet(graph, firstBlockNode, ClickedEdgeInfo(latlng))
          IN /\ E # {}
             /\ \A id \in E :
                  StatusOf(id, blockedEdges', trafficJamEdges')
                    = [blocked |-> roadStatusMode = "block",
                       congested |-> roadStatusMode = "traffic"]
             /\ \A id \in KnownEdgeIds \ E :
                  StatusOf(id, blockedEdges', trafficJamEdges')
                    = StatusOf(id, blockedEdges, trafficJamEdges)
             /\ DashboardOverlay(blockedEdges, trafficJamEdges, E,
                                 IF roadStatusMode = "clear" THEN NULL
                                 ELSE roadStatusMode)
                  = [blocked |-> blockedEdges', traffic |-> trafficJamEdges']]_vars

\* A run over A-B and its parallel road was applied, then another status
\* was given to A-B alone.
C13_Witness ==
  /\ graph = ParallelGraph
  /\ alerted = AppliedAlert
  /\ "B-A" \in trafficJamEdges
  /\ "A-B" \in blockedEdges

(***************************************************************************)
(* Frame and error conditions of a search.                                 *)
(***************************************************************************)
\* The ids of the nodes of a graph.
NodeIdsOf(graphArg) == { graphArg.nodes[i].id : i \in 1..Len(graphArg.nodes) }

\* The graph holds neither a virtual node nor a connector edge.
NoVirtualParts(graphArg) ==
  /\ NodeIdsOf(graphArg) \cap {startVirtualId, endVirtualId} = {}
  /\ \A id \in EdgeIdsOf(graphArg) : ~StartsWithVirtual(id)

\* C14: no step of a search, from Start to its success or failure, changes
\* the stored graph or either overlay set, and every search, a later one
\* included, works on the stored graph plus its own two virtual nodes and
\* at most four connector edges.
C14_SearchLeavesGraphAndOverlay ==
  [][/\ graph' = graph
     /\ blockedEdges' = blockedEdges
     /\ trafficJamEdges' = trafficJamEdges
     /\ NoVirtualParts(graph')
     /\ \A i \in 1..Len(runs') :
          /\ Len(runs'[i].augmentedNodes) = Len(graph.nodes) + 2
          /\ Len(runs'[i].augmentedEdges) <= Len(graph.edges) + 4]_vars

\* A search that reported no path is followed by a second search.
C14_Witness ==
  /\ Len(reported) = 1
  /\ reported[1].outcome = "nopath"
  /\ Len(runs) = 1
  /\ runs[1].nodesExplored > 0

(***************************************************************************)
(* SpecLoad: the component from construction, under loads and uploads of   *)
(* well-formed and malformed input, point selection and Reset.             *)
(***************************************************************************)
\* A file whose road names a node that the file does not hold.
DanglingFile ==
  [nodes |-> << NodeA, NodeB >>,
   edges |-> << [id |-> "A-B", from |-> "A", to |-> "B", distance |-> 1110,
                 bidirectional |-> TRUE],
                [id |-> "B-X", from |-> "B", to |-> "X", distance |-> 1110,
                 bidirectional |-> TRUE] >>]

\* Files without one of the collections, or without both.
NodesOnlyFile == [nodes |-> << NodeA, NodeB >>]
EdgesOnlyFile ==
  [edges |-> << [id |-> "A-B", from |-> "A", to |-> "B", distance |-> 1110,
                 bidirectional |-> TRUE] >>]
NeitherFile == [name |-> "notes"]

\* A graph of two nodes and no road.
EdgelessFile == [nodes |-> << NodeA, NodeB >>, edges |-> << >>]

\* What the file input can be given.
LoadFiles ==
  { LineGraph, DanglingFile, NodesOnlyFile, EdgesOnlyFile, NeitherFile, EdgelessFile }

\* What the backend answers: it sends both collections or neither.
BackendFiles == { LineGraph, DanglingFile, NeitherFile, EdgelessFile }

NextLoad ==
  \/ \E data \in BackendFiles : loadGraph(data)
  \/ \E data \in LoadFiles : handleFileUpload(data)
  \/ \E latlng \in ClickPoints : handleMapClick(latlng)
  \/ handleReset

SpecLoad == Init /\ [][NextLoad]_vars

\* The input has both collections and every road of it joins two of its nodes.
ValidGraphFormat(data) ==
  /\ "nodes" \in DOMAIN data
  /\ "edges" \in DOMAIN data
  /\ \A i \in 1..Len(data.edges) :
       {data.edges[i].from, data.edges[i].to} \subseteq NodeIdsOf(data)

\* C15: an upload of input that lacks a collection, or whose roads name
\* nodes it does not hold, shows the invalid-format message and leaves
\* the stored graph as it was.
C15_InvalidUploadIsRejected ==
  [][\A data \in LoadFiles :
       (~ValidGraphFormat(data) /\ handleFileUpload(data))
       => (graph' = graph /\ alerted' = InvalidGraphAlert)]_vars

(***************************************************************************)
(* SpecBind: uploads of a graph with roads and of one without, clicks on   *)
(* the two ends of the line, and the searches started between them.        *)
(***************************************************************************)
BindFiles == { LineGraph, EdgelessFile }

BindPoints == { PointA, PointC }

NextBind ==
  \/ \E data \in BindFiles : handleFileUpload(data)
  \/ \E latlng \in BindPoints : handleMapClick(latlng)
  \/ StartAStar
  \/ \E i \in 1..Len(runs) : AStarStep(i)

SpecBind == Init /\ [][NextBind]_vars

\* C16: on a graph without roads a click selects no point and changes
\* nothing but the message shown, which says that no road is near; and no
\* search runs on a graph without roads, whose points get no connector.
C16_NoBindingWithoutRoads ==
  [][/\ \A latlng \in BindPoints :
          (Len(graph.edges) = 0 /\ handleMapClick(latlng))
          => /\ alerted' = NoRoadAlert
             /\ UNCHANGED << graph, startPoint, endPoint, blockedEdges,
                             trafficJamEdges, mode, roadStatusMode, firstBlockNode,
                             isRunning, isPaused, isComplete, pathData, stats, runs,
                             reported, builder, bfs >>
     /\ \A i \in 1..Len(runs') : Len(runs'[i].graph.edges) > 0
     /\ \A k \in 1..Len(reported') : Len(reported'[k].graph.edges) > 0]_vars

\* A search on a graph without roads has reported that no path was found.
C16_Witness ==
  /\ Len(reported) = 1
  /\ Len(reported[1].graph.edges) = 0
  /\ reported[1].outcome = "nopath"
  /\ alerted = NoPathFoundAlert

(***************************************************************************)
(* Determinism of a search.                                                *)
(***************************************************************************)
\* Two invocations read the same graph, overlay and points.
SameQuery(r1, r2) ==
  /\ r1.graph = r2.graph
  /\ r1.blockedEdges = r2.blockedEdges
  /\ r1.trafficJamEdges = r2.trafficJamEdges
  /\ r1.startPoint = r2.startPoint
  /\ r1.endPoint = r2.endPoint

MaxClock == 3
MaxHistory == 2

\* The most FileReaders whose onload is pending.
MaxReaders == 1

\* Date.now(): the n-th reading.  Two handlers never run within the same
\* millisecond, so each reading is a new value.
DateNow(n) == << "t1", "t2", "t3", "t4", "t5" >>[n]

AlreadyExistsAlert == "An edge already exists between these two nodes."
ImportedAlert == "Successfully imported graph."
ImportErrorAlert == "Error reading file: Invalid graph format. File must contain 'nodes' and 'edges' arrays."

\* Where the map is clicked to add a node.
BuilderPoints == { [lat |-> 0, lng |-> 0], [lat |-> 0, lng |-> 1] }

\* The files given to Import JSON, and the answers of the backend.
ImportFiles == { OneWayGraph, DanglingFile, NodesOnlyFile }

\* array.filter(keep) for a predicate given as the set of kept indices.
RECURSIVE FilterSeq(_, _, _)
FilterSeq(s, keep, i) ==
  IF i > Len(s) THEN << >>
  ELSE IF i \in keep THEN << s[i] >> \o FilterSeq(s, keep, i + 1)
  ELSE FilterSeq(s, keep, i + 1)

\* saveState(): history with the current nodes and edges pushed.
saveState(b) == Append(b.history, [nodes |-> b.nodes, edges |-> b.edges])

\* The fetch of the mount effect resolved with `data`.
BuilderFetched(data) ==
  /\ builder.fetching
  /\ builder' = [builder EXCEPT
                   !.nodes = IF "nodes" \in DOMAIN data THEN data.nodes ELSE @,
                   !.edges = IF "edges" \in DOMAIN data THEN data.edges ELSE @,
                   !.fetching = FALSE]
  /\ UNCHANGED << visualizerVars, alerted >>

\* The fetch of the mount effect failed: 'No saved graph found.'
BuilderFetchFailed ==
  /\ builder.fetching
  /\ builder' = [builder EXCEPT !.fetching = FALSE]
  /\ UNCHANGED << visualizerVars, alerted >>

\* The View / Add Node / Add Edge buttons.
SetBuilderMode(m) ==
  /\ builder' = [builder EXCEPT !.mode = m, !.firstNode = NoNode]
  /\ UNCHANGED << visualizerVars, alerted >>

\* The Two-way / One-way radio buttons, shown in add-edge mode.
SetIsBidirectional(b) ==
  /\ builder.mode = "add-edge"
  /\ builder' = [builder EXCEPT !.isBidirectional = b]
  /\ UNCHANGED << visualizerVars, alerted >>

\* The builder after addNode(latlng).
NodeAdded(b, latlng) ==
  [b EXCEPT !.history = saveState(b),
            !.nodes = Append(@, [id |-> DateNow(b.clock + 1),
                                 lat |-> latlng.lat, lng |-> latlng.lng]),
            !.clock = @ + 1]

\* addNode(latlng): a map click in add-node mode.
addNode(latlng) ==
  /\ builder.mode = "add-node"
  /\ builder.clock < MaxClock /\ Len(builder.history) < MaxHistory
  /\ builder' = NodeAdded(builder, latlng)
  /\ UNCHANGED << visualizerVars, alerted >>

\* The builder after deleteNode(nodeId).
NodeDeleted(b, nodeId) ==
  [b EXCEPT !.history = saveState(b),
            !.nodes = FilterSeq(@, { i \in 1..Len(@) : @[i].id # nodeId }, 1),
            !.edges = FilterSeq(@, { i \in 1..Len(@) :
                                       @[i].from # nodeId /\ @[i].to # nodeId }, 1),
            !.selectedNode = IF @ = nodeId THEN NULL ELSE @]

\* deleteNode(nodeId): the Delete button of a node of the list.
deleteNode(nodeId) ==
  /\ \E i \in 1..Len(builder.nodes) : builder.nodes[i].id = nodeId
  /\ Len(builder.history) < MaxHistory
  /\ builder' = NodeDeleted(builder, nodeId)
  /\ UNCHANGED << visualizerVars, alerted >>

\* The edge of the builder that joins two nodes in either direction, as
\* edges.find(...) returns it, or NoEdge.
ExistingEdge(b, a, c) ==
  LET hits == { i \in 1..Len(b.edges) :
                  \/ b.edges[i].from = a /\ b.edges[i].to = c
                  \/ b.edges[i].from = c /\ b.edges[i].to = a }
  IN IF hits = {} THEN NoEdge
     ELSE b.edges[CHOOSE i \in hits : \A j \in hits : i <= j]

\* The builder after the click of handleNodeClick(node) that adds an edge
\* from firstNode to node.
EdgeAdded(b, node) ==
  [b EXCEPT !.history = saveState(b),
            !.edges = Append(@,
               [id |-> DateNow(b.clock + 1),
                from |-> b.firstNode.id, to |-> node.id,
                distance |-> MathRound(haversineDistance(
                   b.firstNode.lat, b.firstNode.lng, node.lat, node.lng)),
                bidirectional |-> b.isBidirectional]),
            !.firstNode = node,
            !.clock = @ + 1]

\* handleNodeClick(node): a click on a node of the list or on its marker.
handleNodeClick(node) ==
  /\ \E i \in 1..Len(builder.nodes) : builder.nodes[i] = node
  /\ IF builder.mode = "add-edge"
     THEN IF builder.firstNode = NoNode
          THEN /\ builder' = [builder EXCEPT !.firstNode = node]
               /\ UNCHANGED alerted
          ELSE IF builder.firstNode.id # node.id
          THEN IF ExistingEdge(builder, builder.firstNode.id, node.id) # NoEdge
               THEN /\ alerted' = AlreadyExistsAlert
                    /\ builder' = [builder EXCEPT !.firstNode = NoNode]
               ELSE /\ builder.clock < MaxClock
                    /\ Len(builder.history) < MaxHistory
                    /\ builder' = EdgeAdded(builder, node)
                    /\ UNCHANGED alerted
          ELSE UNCHANGED << builder, alerted >>
     ELSE /\ builder' = [builder EXCEPT
                           !.selectedNode = IF @ = node.id THEN NULL ELSE node.id]
          /\ UNCHANGED alerted
  /\ UNCHANGED visualizerVars

\* The edges the map draws: those whose two ends are nodes.
DrawnEdgeIds(b) ==
  { b.edges[i].id : i \in { j \in 1..Len(b.edges) :
      /\ FindNode(b.nodes, b.edges[j].from) # NoNode
      /\ FindNode(b.nodes, b.edges[j].to) # NoNode } }

\* The builder after deleteEdge(edgeId).
EdgeDeleted(b, edgeId) ==
  [b EXCEPT !.history = saveState(b),
            !.edges = FilterSeq(@, { i \in 1..Len(@) : @[i].id # edgeId }, 1)]

\* deleteEdge(edgeId): the Delete button in the popup of a drawn edge.
deleteEdge(edgeId) ==
  /\ edgeId \in DrawnEdgeIds(builder)
  /\ Len(builder.history) < MaxHistory
  /\ builder' = EdgeDeleted(builder, edgeId)
  /\ UNCHANGED << visualizerVars, alerted >>

\* The builder after undo(): unchanged when history is empty.
Undone(b) ==
  IF Len(b.history) > 0
  THEN [b EXCEPT !.nodes = b.history[Len(b.history)].nodes,
                 !.edges = b.history[Len(b.history)].edges,
                 !.history = SubSeq(@, 1, Len(@) - 1)]
  ELSE b

\* undo(): the Undo button, disabled while history is empty.
undo ==
  /\ Len(builder.history) > 0
  /\ builder' = Undone(builder)
  /\ UNCHANGED << visualizerVars, alerted >>

\* The builder after importGraph(e) made the reader of a file.
FileChosen(b, data) ==
  [b EXCEPT !.readers = Append(@, [data |-> data, nodes |-> b.nodes,
                                   edges |-> b.edges, history |-> b.history])]

\* importGraph(e): a file is chosen; a FileReader is made whose onload
\* closes over the nodes, edges and history of this render, and
\* readAsText is started.  `data` is the object the file parses to.
importGraph(data) ==
  /\ Len(builder.readers) < MaxReaders
  /\ builder' = FileChosen(builder, data)
  /\ UNCHANGED << visualizerVars, alerted >>

\* Whether the onload of a reader passes the test of its try block.
ValidImport(data) == "nodes" \in DOMAIN data /\ "edges" \in DOMAIN data

\* The builder after the onload of its i-th pending reader imported the
\* file: saveState() of the handler's closure, setNodes, setEdges.
Imported(b, i) ==
  LET reader == b.readers[i]
  IN [b EXCEPT !.history = Append(reader.history,
                                  [nodes |-> reader.nodes, edges |-> reader.edges]),
               !.nodes = reader.data.nodes,
               !.edges = reader.data.edges,
               !.readers = RemoveAt(@, i)]

\* reader.onload of the i-th pending reader.
ReaderOnload(i) ==
  IF ~ValidImport(builder.readers[i].data)
  THEN /\ alerted' = ImportErrorAlert
       /\ builder' = [builder EXCEPT !.readers = RemoveAt(@, i)]
       /\ UNCHANGED visualizerVars
  ELSE /\ Len(builder.readers[i].history) < MaxHistory
       /\ builder' = Imported(builder, i)
       /\ alerted' = ImportedAlert
       /\ UNCHANGED visualizerVars

\* exportGraph(): the object that JSON.stringify({ nodes, edges }) writes
\* and JSON.parse reads back.
exportGraph(b) == [nodes |-> b.nodes, edges |-> b.edges]

\* importGraph and the onload of its reader with no other handler in
\* between: the file is read before the next event.
ImportFile(data) ==
  /\ builder.readers = << >>
  /\ IF ~ValidImport(data)
     THEN /\ alerted' = ImportErrorAlert
          /\ UNCHANGED builder
     ELSE /\ Len(builder.history) < MaxHistory
          /\ builder' = Imported(FileChosen(builder, data), 1)
          /\ alerted' = ImportedAlert
  /\ UNCHANGED visualizerVars

\* The builder when every file is read before the next event.
NextBuilder ==
  \/ \E data \in ImportFiles : BuilderFetched(data)
  \/ BuilderFetchFailed
  \/ \E m \in {"view", "add-node", "add-edge"} : SetBuilderMode(m)
  \/ \E b \in BOOLEAN : SetIsBidirectional(b)
  \/ \E latlng \in BuilderPoints : addNode(latlng)
  \/ \E i \in 1..Len(builder.nodes) : deleteNode(builder.nodes[i].id)
  \/ \E i \in 1..Len(builder.nodes) : handleNodeClick(builder.nodes[i])
  \/ \E edgeId \in DrawnEdgeIds(builder) : deleteEdge(edgeId)
  \/ undo
  \/ \E data \in ImportFiles : ImportFile(data)

SpecBuilder == Init /\ [][NextBuilder]_vars

\* The builder's editing operations, with the onload of a reader as a step
\* of its own that other handlers may precede.
NextUndo ==
  \/ \E m \in {"add-node", "add-edge"} : SetBuilderMode(m)
  \/ \E latlng \in BuilderPoints : addNode(latlng)
  \/ \E i \in 1..Len(builder.nodes) : deleteNode(builder.nodes[i].id)
  \/ \E i \in 1..Len(builder.nodes) : handleNodeClick(builder.nodes[i])
  \/ \E edgeId \in DrawnEdgeIds(builder) : deleteEdge(edgeId)
  \/ undo
  \/ \E data \in ImportFiles : importGraph(data)
  \/ \E i \in 1..Len(builder.readers) : ReaderOnload(i)

SpecUndo == Init /\ [][NextUndo]_vars

\* C18: in the graph store every edge's from and to are ids of nodes of
\* the node collection.
C18_EdgeEndsAreNodes ==
  \A i \in 1..Len(builder.edges) :
    {builder.edges[i].from, builder.edges[i].to} \subseteq NodeIdsOf(builder)

(***************************************************************************)
(* Round trip of a graph through a load and an export.                     *)
(***************************************************************************)
\* graph.export() of the dashboard's graphology Graph: each node under its
\* key, each edge with its ends and its attributes.
DashboardExport(graphArg) ==
  [nodes |-> [ i \in 1..Len(graphArg.nodes) |->
                 [key |-> graphArg.nodes[i].id,
                  attributes |-> [lat |-> graphArg.nodes[i].lat,
                                  lng |-> graphArg.nodes[i].lng]] ],
   edges |-> [ i \in 1..Len(graphArg.edges) |->
                 [source |-> graphArg.edges[i].from,
                  target |-> graphArg.edges[i].to,
                  attributes |-> [id |-> graphArg.edges[i].id,
                                  distance |-> graphArg.edges[i].distance],
                  undirected |-> graphArg.edges[i].bidirectional] ]]

\* What the dashboard is given to load.
DashboardFiles == GraphFiles \cup { DanglingFile, NodesOnlyFile }

NextDashboardLoad ==
  \/ \E data \in DashboardFiles : loadAndSetGraph(data)
  \/ \E latlng \in ClickPoints : DashboardSelectClick(latlng)
  \/ DashboardRunAStar
  \/ handleReset
  \/ clearBlockedRoads

SpecDashboardLoad == InitDashboard /\ [][NextDashboardLoad]_vars

\* C19 (ManualBuilder.js): the export that follows an import of a file
\* holds the nodes and the edges of the file.
C19_BuilderExportsWhatItImported ==
  [][\A data \in ImportFiles :
       (ValidImport(data) /\ ImportFile(data))
       => exportGraph(builder') = [nodes |-> data.nodes, edges |-> data.edges]]_vars

\* C19 (PathfindingDashboard.js): the export that follows a load that was
\* not refused has as many nodes and as many edges as the loaded input, and
\* the same node ids and edge ids.
C19_DashboardExportsWhatItLoaded ==
  [][\A data \in DashboardFiles :
       ("nodes" \in DOMAIN data /\ "edges" \in DOMAIN data /\ loadAndSetGraph(data))
       => LET out == DashboardExport(graph')
          IN /\ Len(out.nodes) = Len(data.nodes)
             /\ Len(out.edges) = Len(data.edges)
             /\ { out.nodes[i].key : i \in 1..Len(out.nodes) } = NodeIdsOf(data)
             /\ { out.edges[i].attributes.id : i \in 1..Len(out.edges) }
                  = EdgeIdsOf(data)]_vars

(***************************************************************************)
(* Direction of travel along an edge during expansion                      *)
(* (getAugmentedNeighbors, PathfindingVisualizer.js lines 624-638).        *)
(***************************************************************************)

\* Travel along edge from fromId to toId respects the edge's direction.
LegalTraversal(edge, fromId, toId) ==
  \/ edge.from = fromId /\ edge.to = toId
  \/ edge.to = fromId /\ edge.from = toId /\ edge.bidirectional = TRUE

\* The neighbours the expansion of r.current is about to relax.
ExpansionOf(r) == getAugmentedNeighbors(r, r.current)

\* Every neighbour offered follows its edge in a permitted direction.
ExpansionIsLegal(r) ==
  \A k \in 1..Len(ExpansionOf(r)) :
    LegalTraversal(EdgeById(r, ExpansionOf(r)[k].edgeId),
                   r.current, ExpansionOf(r)[k].id)

\* Every edge that is not skipped is offered from its from end, and from
\* its to end when it is bidirectional.
ExpansionIsComplete(r) ==
  \A i \in 1..Len(r.augmentedEdges) :
    LET edge == r.augmentedEdges[i]
        offered(toId) == \E k \in 1..Len(ExpansionOf(r)) :
                           /\ ExpansionOf(r)[k].edgeId = edge.id
                           /\ ExpansionOf(r)[k].id = toId
    IN ~EdgeSkipped(r, edge)
       => /\ edge.from = r.current => offered(edge.to)
          /\ (edge.to = r.current /\ edge.bidirectional = TRUE) => offered(edge.from)

\* Every predecessor link the search has recorded follows its edge in a
\* permitted direction.
LinksAreLegal(r) ==
  \A n \in DOMAIN r.cameFrom :
    LegalTraversal(EdgeById(r, r.viaEdge[n]), r.cameFrom[n], n)

\* C20: when a node is expanded, each edge is followed from its from
\* endpoint to its to endpoint, and from its to endpoint to its from
\* endpoint only when it is bidirectional; no search step travels a one-way
\* edge from to to from, and no recorded predecessor link does.
C20_EdgesFollowedInTheirDirection ==
  /\ \A i \in 1..Len(runs) :
       /\ LinksAreLegal(runs[i])
       /\ runs[i].pc = "timer"
          => ExpansionIsLegal(runs[i]) /\ ExpansionIsComplete(runs[i])
  /\ \A k \in 1..Len(reported) : LinksAreLegal(reported[k])

\* A search has ended without a route although it expanded the to end of
\* an open one-way road whose from end it never reached: the road was
\* refused in reverse.
C20_Witness ==
  \E k \in 1..Len(reported) :
    /\ reported[k].outcome = "nopath"
    /\ \E i \in 1..Len(reported[k].graph.edges) :
         LET edge == reported[k].graph.edges[i]
         IN /\ edge.bidirectional = FALSE
            /\ edge.id \notin reported[k].blockedEdges
            /\ edge.to \in reported[k].closedSet
            /\ edge.from \notin reported[k].closedSet
            /\ edge.from \notin DOMAIN reported[k].cameFrom

(***************************************************************************)
(* Resolution of a run between two different roads                         *)
(* (handleMapClick, PathfindingVisualizer.js lines 431-452).               *)
(***************************************************************************)
\* The line A-B-C-D with a last road from B straight to D.
DetourGraph ==
  [nodes |-> ChainNodes,
   edges |-> << [id |-> "A-B", from |-> "A", to |-> "B", distance |-> 1110,
                 bidirectional |-> TRUE],
                [id |-> "B-C", from |-> "B", to |-> "C", distance |-> 1110,
                 bidirectional |-> TRUE],
                [id |-> "C-D", from |-> "C", to |-> "D", distance |-> 1110,
                 bidirectional |-> TRUE],
                [id |-> "B-D", from |-> "B", to |-> "D", distance |-> 2220,
                 bidirectional |-> TRUE] >>]

\* The node at the place of A whose id is the empty string.
NodeEmptyId == [id |-> "", lat |-> 0, lng |-> 0]

\* The line of four nodes whose first node has the empty string as id.
EmptyIdGraph ==
  [nodes |-> << NodeEmptyId, NodeB, NodeC, NodeD >>,
   edges |-> << [id |-> "A-B", from |-> "", to |-> "B", distance |-> 1110,
                 bidirectional |-> TRUE],
                [id |-> "B-C", from |-> "B", to |-> "C", distance |-> 1110,
                 bidirectional |-> TRUE],
                [id |-> "C-D", from |-> "C", to |-> "D", distance |-> 1110,
                 bidirectional |-> TRUE] >>]

RunFiles == { DetourGraph, EmptyIdGraph, TwoRoadsGraph }

NextRun ==
  \/ \E data \in RunFiles : handleFileUpload(data)
  \/ \E status \in {"block", "traffic", "clear"} : ApplyButton(status)
  \/ \E latlng \in ClickPoints : handleMapClick(latlng)
  \/ clearBlockedRoads

InitRun ==
  /\ graph \in RunFiles
  /\ startPoint = NoPoint
  /\ endPoint = NoPoint
  /\ blockedEdges = {}
  /\ trafficJamEdges = {}
  /\ mode = "road-status"
  /\ roadStatusMode = "block"
  /\ firstBlockNode = NoBlockNode
  /\ isRunning = FALSE
  /\ isPaused = FALSE
  /\ isComplete = FALSE
  /\ pathData = << >>
  /\ stats = ZeroStats
  /\ runs = << >>
  /\ reported = << >>
  /\ alerted = NULL
  /\ builder = NewBuilder
  /\ bfs = NoBfs

SpecRun == InitRun /\ [][NextRun]_vars

\* The four pairs of ends in the order of the claim.
RunSearches(first, second) ==
  << << first.to, second.from >>, << first.from, second.to >>,
     << first.to, second.to >>, << first.from, second.from >> >>

\* The searches of the list that return a path.
SearchesFound(graphArg, searches) ==
  { k \in DOMAIN searches :
      Len(findPathBetweenNodesUndirected(graphArg, searches[k][1], searches[k][2])) > 0 }

\* The path of the first search of the list that returns one, or << >>.
FirstPathFound(graphArg, searches) ==
  IF SearchesFound(graphArg, searches) = {} THEN << >>
  ELSE LET k == CHOOSE k \in SearchesFound(graphArg, searches) :
                  \A j \in SearchesFound(graphArg, searches) : k <= j
       IN findPathBetweenNodesUndirected(graphArg, searches[k][1], searches[k][2])

\* The ids of the edges whose two ends are a and b, in either direction.
PairEdgeIds(graphArg, a, b) ==
  { graphArg.edges[i].id :
      i \in { j \in 1..Len(graphArg.edges) :
                {graphArg.edges[j].from, graphArg.edges[j].to} = {a, b} } }

\* The two clicked ids and all edges between consecutive nodes of the path.
ClaimedEditSet(graphArg, first, second, path) ==
  {first.edgeId, second.edgeId}
    \cup { id \in EdgeIdsOf(graphArg) :
             \E i \in 1..(Len(path) - 1) :
               id \in PairEdgeIds(graphArg, path[i], path[i + 1]) }

\* C21: on a second click on a different edge the four undirected searches
\* are tried in the order (first.to, second.from), (first.from, second.to),
\* (first.to, second.to), (first.from, second.from); when one returns a path
\* the ids given the applied status are exactly the two clicked ids and the
\* ids of all edges joining consecutive nodes of the first path returned,
\* and every other id keeps its status; when none does, nothing is edited.
C21_RunUsesFirstPathFound ==
  [][\A latlng \in ClickPoints :
       ( /\ IsSecondClick(latlng)
         /\ ClickedEdgeInfo(latlng).edgeId # firstBlockNode.edgeId
         /\ handleMapClick(latlng) )
       => LET second == ClickedEdgeInfo(latlng)
              path == FirstPathFound(graph, RunSearches(firstBlockNode, second))
              E == ClaimedEditSet(graph, firstBlockNode, second, path)
          IN IF path = << >>
             THEN /\ blockedEdges' = blockedEdges
                  /\ trafficJamEdges' = trafficJamEdges
                  /\ alerted' = NoRunPathAlert
             ELSE /\ \A id \in E :
                       StatusOf(id, blockedEdges', trafficJamEdges')
                         = [blocked |-> roadStatusMode = "block",
                            congested |-> roadStatusMode = "traffic"]
                  /\ \A id \in KnownEdgeIds \ E :
                       StatusOf(id, blockedEdges', trafficJamEdges')
                         = StatusOf(id, blockedEdges, trafficJamEdges)
                  /\ alerted' = AppliedAlert]_vars

\* A run from road A-B to road C-D was applied on the graph with the
\* detour: the path of the first search, B to C, was used, so B-C is
\* blocked and the detour B-D is not.
C21_Witness ==
  /\ graph = DetourGraph
  /\ alerted = AppliedAlert
  /\ firstBlockNode = NoBlockNode
  /\ blockedEdges = {"A-B", "B-C", "C-D"}
  /\ trafficJamEdges = {}

(***************************************************************************)
(* findPathBetweenNodesUndirected, one iteration of its loop at a time     *)
(* (PathfindingVisualizer.js lines 323-344).                               *)
(***************************************************************************)
\* The most edges of a graph the search is followed on.
MaxBfsEdges == 3

BfsIds == { "", "B", "C", "D" }

\* Every array of at most MaxBfsEdges edges between the four ids: loops,
\* cycles, parallel and opposite edges included.
BfsFamily ==
  UNION { { [nodes |-> << NodeEmptyId, NodeB, NodeC, NodeD >>,
             edges |-> [ i \in 1..n |->
                           [id |-> FamilyEdgeIds[i], from |-> es[i].from,
                            to |-> es[i].to, distance |-> StepLen,
                            bidirectional |-> TRUE] ]] :
            es \in [1..n -> [from : BfsIds, to : BfsIds]] } :
          n \in 0..MaxBfsEdges }

\* Lines 324-326: the early return, or the queue and the visited set.
BfsEnter(startNodeId, endNodeId, repeated, last) ==
  IF Len(graph.edges) = 0
  THEN [NoBfs EXCEPT !.pc = "done", !.startNodeId = startNodeId,
                     !.endNodeId = endNodeId, !.repeated = repeated, !.last = last]
  ELSE [NoBfs EXCEPT !.pc = "loop", !.startNodeId = startNodeId,
                     !.endNodeId = endNodeId, !.queue = << << startNodeId >> >>,
                     !.visited = {startNodeId}, !.pushed = << << startNodeId >> >>,
                     !.repeated = repeated, !.last = last]

\* A call of findPathBetweenNodesUndirected(graph, startNodeId, endNodeId).
BfsCall(startNodeId, endNodeId) ==
  /\ bfs.pc = "idle"
  /\ bfs' = BfsEnter(startNodeId, endNodeId, FALSE, << >>)
  /\ UNCHANGED << graph, startPoint, endPoint, blockedEdges, trafficJamEdges, mode,
                  roadStatusMode, firstBlockNode, isRunning, isPaused, isComplete,
                  pathData, stats, runs, reported, alerted, builder >>

\* The same call once more, after the first one has returned.
BfsCallAgain ==
  /\ bfs.pc = "done"
  /\ ~bfs.repeated
  /\ bfs' = BfsEnter(bfs.startNodeId, bfs.endNodeId, TRUE, bfs.result)
  /\ UNCHANGED << graph, startPoint, endPoint, blockedEdges, trafficJamEdges, mode,
                  roadStatusMode, firstBlockNode, isRunning, isPaused, isComplete,
                  pathData, stats, runs, reported, alerted, builder >>

\* Lines 328-342: one test of `queue.length` and, when it is not zero, one
\* iteration of the body.
BfsStep ==
  /\ bfs.pc = "loop"
  /\ bfs' =
       IF Len(bfs.queue) = 0 THEN [bfs EXCEPT !.pc = "done", !.result = << >>]
       ELSE LET path == Head(bfs.queue)
                current == path[Len(path)]
                st == BfsEdgeScan(graph, path, current, 1,
                                  [queue |-> Tail(bfs.queue), visited |-> bfs.visited])
            IN IF current = bfs.endNodeId
               THEN [bfs EXCEPT !.pc = "done", !.result = path, !.pops = @ + 1]
               ELSE [bfs EXCEPT !.queue = st.queue, !.visited = st.visited,
                                !.pops = @ + 1,
                                !.pushed = @ \o SubSeq(st.queue, Len(bfs.queue),
                                                        Len(st.queue))]
  /\ UNCHANGED << graph, startPoint, endPoint, blockedEdges, trafficJamEdges, mode,
                  roadStatusMode, firstBlockNode, isRunning, isPaused, isComplete,
                  pathData, stats, runs, reported, alerted, builder >>

InitBfs ==
  /\ graph \in BfsFamily
  /\ startPoint = NoPoint
  /\ endPoint = NoPoint
  /\ blockedEdges = {}
  /\ trafficJamEdges = {}
  /\ mode = "road-status"
  /\ roadStatusMode = "block"
  /\ firstBlockNode = NoBlockNode
  /\ isRunning = FALSE
  /\ isPaused = FALSE
  /\ isComplete = FALSE
  /\ pathData = << >>
  /\ stats = ZeroStats
  /\ runs = << >>
  /\ reported = << >>
  /\ alerted = NULL
  /\ builder = NewBuilder
  /\ bfs = NoBfs

NextBfs ==
  \/ \E startNodeId \in BfsIds : \E endNodeId \in BfsIds :
       BfsCall(startNodeId, endNodeId)
  \/ BfsCallAgain
  \/ BfsStep

SpecBfs == InitBfs /\ [][NextBfs]_vars

\* The last node of a path.
LastOf(path) == path[Len(path)]

\* The ids the edges of the graph name, and the start of the search.
BfsNodes == { graph.edges[i].from : i \in 1..Len(graph.edges) }
              \cup { graph.edges[i].to : i \in 1..Len(graph.edges) }
              \cup { bfs.startNodeId }

\* C22: in every call each node enters the queue at most once, so the loop
\* body runs at most once per node of the graph and the call returns; and
\* the call made again on the same graph with the same endpoints returns
\* the path it returned before, which is the value of the search as a
\* function of the graph and the two endpoints alone.
C22_BfsQueuesEachNodeOnce ==
  /\ \A i \in 1..Len(bfs.pushed) : \A j \in 1..Len(bfs.pushed) :
       LastOf(bfs.pushed[i]) = LastOf(bfs.pushed[j]) => i = j
  /\ bfs.pc # "idle" =>
       /\ Len(bfs.pushed) <= Cardinality(BfsNodes)
       /\ bfs.pops <= Len(bfs.pushed)
       /\ bfs.pc = "loop" => Len(bfs.queue) + bfs.pops = Len(bfs.pushed)
  /\ (bfs.pc = "done" /\ bfs.repeated) => bfs.result = bfs.last
  /\ bfs.pc = "done" =>
       bfs.result = findPathBetweenNodesUndirected(graph, bfs.startNodeId, bfs.endNodeId)

\* A repeated search on a graph of three edges, two of them opposite edges
\* between the same nodes, has returned a path of three nodes after
\* queueing each of the three nodes once.
C22_Witness ==
  /\ bfs.pc = "done"
  /\ bfs.repeated
  /\ Len(graph.edges) = MaxBfsEdges
  /\ Len(bfs.result) = Len(graph.edges)
  /\ Len(bfs.pushed) = Len(graph.edges)
  /\ \E i \in 1..Len(graph.edges) : \E j \in 1..Len(graph.edges) :
       /\ graph.edges[i].from = graph.edges[j].to
       /\ graph.edges[i].to = graph.edges[j].from
       /\ graph.edges[i].from # graph.edges[i].to

(***************************************************************************)
(* What findPathBetweenNodesUndirected returns.                            *)
(***************************************************************************)
\* The number of roads on a shortest way from a node of S to b, counted
\* from n, roads taken in either direction; Undefined when there is none.
RECURSIVE HopsFrom(_, _, _, _)
HopsFrom(graphArg, S, b, n) ==
  IF b \in S THEN n
  ELSE IF Around(graphArg, S) = S THEN Undefined
  ELSE HopsFrom(graphArg, Around(graphArg, S), b, n + 1)

\* The path starts at a, ends at b, and each hop follows a road of the
\* graph in one direction or the other.
IsUndirectedPath(graphArg, path, a, b) ==
  /\ Len(path) > 0
  /\ path[1] = a
  /\ LastOf(path) = b
  /\ \A i \in 1..(Len(path) - 1) : PairEdgeIds(graphArg, path[i], path[i + 1]) # {}

\* C28: on a graph with roads, a finished search has returned a path from
\* the start node to the end node with the fewest hops whenever the two
\* are joined by roads taken in either direction, whatever the node ids
\* are, and has returned null only when they are not joined.
C28_BfsFindsShortestJoiningPath ==
  (bfs.pc = "done" /\ Len(graph.edges) > 0)
  => IF Joined(graph, bfs.startNodeId, bfs.endNodeId)
     THEN /\ IsUndirectedPath(graph, bfs.result, bfs.startNodeId, bfs.endNodeId)
          /\ Len(bfs.result)
               = HopsFrom(graph, {bfs.startNodeId}, bfs.endNodeId, 0) + 1
     ELSE bfs.result = << >>

\* The same statement for searches in which no node id is the empty string.
BfsFindsShortestPathOfTruthyIds ==
  ("" \notin BfsNodes \cup {bfs.endNodeId}) => C28_BfsFindsShortestJoiningPath

(***************************************************************************)
(* splitEdgeAtSync (PathfindingVisualizer.js lines 250-320): a function of *)
(* its five arguments that no handler of the component calls.  The action  *)
(* ApplySplit applies it to the stored graph and overlay and stores what   *)
(* it returns.  projection = [lat, lng, tnum, tden] with t = tnum / tden;  *)
(* a projection without t has neither field.  The nodes of the model have  *)
(* no name, so the name of the new node is built from the ids of the       *)
(* edge's ends, with "<->" for the arrow of line 270.                      *)
(***************************************************************************)
\* const EPS = 1e-9, as the fraction 1 / EpsDen.
EpsDen == 1000000000

\* The factor 1e6 of the node id.
Million == 1000000

\* The most edges of a graph that is split further.
MaxSplitEdges == 4

\* `projection.t ?? 0`, as a fraction.
SplitT(projection) ==
  IF "tnum" \in DOMAIN projection
  THEN [num |-> projection.tnum, den |-> projection.tden]
  ELSE [num |-> 0, den |-> 1]

\* t <= EPS and t >= 1 - EPS for t = num / den, 0 <= num <= den.
AtMostEps(t) == t.num <= t.den \div EpsDen

AtLeastOneMinusEps(t) == t.den - t.num <= t.den \div EpsDen

\* Math.round(t * 1e6).
RoundMillionths(t) ==
  IF t.den % Million = 0
  THEN (2 * t.num + t.den \div Million) \div (2 * (t.den \div Million))
  ELSE (2 * t.num * Million + t.den) \div (2 * t.den)

\* Number.prototype.toString(36) of a natural number.
RECURSIVE ToString36(_)
ToString36(n) ==
  LET digit == SubSeq("0123456789abcdefghijklmnopqrstuvwxyz", (n % 36) + 1, (n % 36) + 1)
  IN IF n < 36 THEN digit ELSE ToString36(n \div 36) \o digit

\* Line 258.
SplitNodeId(edge, t) == edge.id \o "_p_" \o ToString36(RoundMillionths(t))

\* prevGraph.edges.find((e) => e.id === edgeId), NoEdge for undefined.
FindEdge(edges, edgeId) ==
  IF \E i \in 1..Len(edges) : edges[i].id = edgeId
  THEN edges[CHOOSE i \in 1..Len(edges) :
               edges[i].id = edgeId /\ \A j \in 1..(i - 1) : edges[j].id # edgeId]
  ELSE NoEdge

\* Lines 298-308 for one overlay set, with only the first new id added.
SplitOverlay_FirstHalfOnly(prevSet, edgeId, e1Id, e2Id) ==
  IF edgeId \in prevSet THEN (prevSet \ {edgeId}) \cup {e1Id} ELSE prevSet

\* Lines 298-308 for one overlay set.
SplitOverlay(prevSet, edgeId, e1Id, e2Id) ==
  IF edgeId \in prevSet THEN (prevSet \ {edgeId}) \cup {e1Id, e2Id} ELSE prevSet

\* Math.max(1, Math.round(d)) of a distance in tenths of a metre, in tenths.
SplitDistance(d) == Max2(1, MathRound(d)) * 10

splitEdgeAtSync(prevGraph, edgeId, projection, prevBlockedSet, prevTrafficSet) ==
  LET edge == FindEdge(prevGraph.edges, edgeId)
      t == SplitT(projection)
      unchanged(id) == [newNodeId |-> id, newGraph |-> prevGraph,
                        newBlockedSet |-> prevBlockedSet,
                        newTrafficSet |-> prevTrafficSet]
      newNodeId == SplitNodeId(edge, t)
      fromNode == FindNode(prevGraph.nodes, edge.from)
      toNode == FindNode(prevGraph.nodes, edge.to)
      newNode == [id |-> newNodeId, lat |-> projection.lat, lng |-> projection.lng,
                  name |-> edge.from \o "<->" \o edge.to \o " (split)", isPOI |-> FALSE]
      e1 == [id |-> edge.id \o "_a", from |-> edge.from, to |-> newNodeId,
             distance |-> SplitDistance(haversineDistance(fromNode.lat, fromNode.lng,
                                                          newNode.lat, newNode.lng)),
             bidirectional |-> edge.bidirectional # FALSE]
      e2 == [id |-> edge.id \o "_b", from |-> newNodeId, to |-> edge.to,
             distance |-> SplitDistance(haversineDistance(newNode.lat, newNode.lng,
                                                          toNode.lat, toNode.lng)),
             bidirectional |-> edge.bidirectional # FALSE]
      kept == { i \in 1..Len(prevGraph.edges) : prevGraph.edges[i].id # edge.id }
  IN IF edge.id = NULL THEN unchanged(NULL)
     ELSE IF AtMostEps(t) THEN unchanged(edge.from)
     ELSE IF AtLeastOneMinusEps(t) THEN unchanged(edge.to)
     ELSE IF \E i \in 1..Len(prevGraph.nodes) : prevGraph.nodes[i].id = newNodeId
     THEN unchanged(newNodeId)
     ELSE IF fromNode.id = NULL \/ toNode.id = NULL THEN unchanged(NULL)
     ELSE [newNodeId |-> newNodeId,
           newGraph |-> [nodes |-> Append(prevGraph.nodes, newNode),
                         edges |-> FilterSeq(prevGraph.edges, kept, 1) \o << e1, e2 >>],
           newBlockedSet |-> SplitOverlay(prevBlockedSet, edge.id, e1.id, e2.id),
           newTrafficSet |-> SplitOverlay(prevTrafficSet, edge.id, e1.id, e2.id)]

\* A call of splitEdgeAtSync on the stored graph and overlay whose result
\* is stored.
ApplySplit(edgeId, projection) ==
  /\ Len(graph.edges) < MaxSplitEdges
  /\ LET out == splitEdgeAtSync(graph, edgeId, projection, blockedEdges, trafficJamEdges)
     IN /\ graph' = out.newGraph
        /\ blockedEdges' = out.newBlockedSet
        /\ trafficJamEdges' = out.newTrafficSet
  /\ UNCHANGED << startPoint, endPoint, mode, roadStatusMode, firstBlockNode, isRunning,
                  isPaused, isComplete, pathData, stats, runs, reported, alerted,
                  builder, bfs >>

\* A one-way road from A to C, two grid steps long, and a road on to D.
LongRoadGraph ==
  [nodes |-> << NodeA, NodeC, NodeD >>,
   edges |-> << [id |-> "A-C", from |-> "A", to |-> "C", distance |-> 2220,
                 bidirectional |-> FALSE],
                [id |-> "C-D", from |-> "C", to |-> "D", distance |-> 1110,
                 bidirectional |-> TRUE] >>]

\* The same graph with a node that already has the id of the midpoint of
\* road A-C.
MidpointGraph ==
  [nodes |-> << NodeA, NodeC, NodeD, [id |-> "A-C_p_apsw", lat |-> 0, lng |-> 1] >>,
   edges |-> LongRoadGraph.edges]

SplitFiles == { LongRoadGraph, MidpointGraph, DanglingFile }

\* Projections at both ends, at the midpoint, just inside and just outside
\* EPS of either end, and one without t.
SplitProjections ==
  { [lat |-> 0, lng |-> n, tnum |-> n, tden |-> 2] : n \in 0..2 }
    \cup { [lat |-> 0, lng |-> 0, tnum |-> n, tden |-> EpsDen] : n \in 1..2 }
    \cup { [lat |-> 0, lng |-> 2, tnum |-> EpsDen - n, tden |-> EpsDen] : n \in 1..2 }
    \cup { [lat |-> 0, lng |-> 1] }

InitSplit ==
  /\ graph \in SplitFiles
  /\ startPoint = NoPoint
  /\ endPoint = NoPoint
  /\ blockedEdges \in SUBSET EdgeIdsOf(graph)
  /\ trafficJamEdges \in SUBSET (EdgeIdsOf(graph) \ blockedEdges)
  /\ mode = "select"
  /\ roadStatusMode = NULL
  /\ firstBlockNode = NoBlockNode
  /\ isRunning = FALSE
  /\ isPaused = FALSE
  /\ isComplete = FALSE
  /\ pathData = << >>
  /\ stats = ZeroStats
  /\ runs = << >>
  /\ reported = << >>
  /\ alerted = NULL
  /\ builder = NewBuilder
  /\ bfs = NoBfs

NextSplit ==
  \E edgeId \in EdgeIdsOf(graph) \cup {"unknown"} : \E projection \in SplitProjections :
     ApplySplit(edgeId, projection)

SpecSplit == InitSplit /\ [][NextSplit]_vars

\* t is an interior fraction: neither t <= EPS nor t >= 1 - EPS.
InteriorFraction(projection) ==
  /\ ~AtMostEps(SplitT(projection))
  /\ ~AtLeastOneMinusEps(SplitT(projection))

\* What splitEdgeAtSync returns for the stored graph and overlay.
SplitOf(edgeId, projection) ==
  splitEdgeAtSync(graph, edgeId, projection, blockedEdges, trafficJamEdges)

\* What a split that takes place returns.
SplitReplaces(out, edgeId) ==
  /\ EdgeIdsOf(out.newGraph)
       = (EdgeIdsOf(graph) \ {edgeId}) \cup {edgeId \o "_a", edgeId \o "_b"}
  /\ edgeId \in blockedEdges
       => {edgeId \o "_a", edgeId \o "_b"} \subseteq out.newBlockedSet
  /\ edgeId \in trafficJamEdges
       => {edgeId \o "_a", edgeId \o "_b"} \subseteq out.newTrafficSet
  /\ edgeId \notin out.newBlockedSet \cup out.newTrafficSet
  /\ edgeId \notin blockedEdges \cup trafficJamEdges
       => out.newBlockedSet = blockedEdges /\ out.newTrafficSet = trafficJamEdges

\* What a split that does not take place returns.
SplitChangesNothing(out) ==
  /\ out.newGraph = graph
  /\ out.newBlockedSet = blockedEdges
  /\ out.newTrafficSet = trafficJamEdges

\* The edge is in the graph, both its end nodes are, and no node has the
\* id of the node the split would make.
CanSplit(edgeId, projection) ==
  /\ edgeId \in EdgeIdsOf(graph)
  /\ {FindEdge(graph.edges, edgeId).from, FindEdge(graph.edges, edgeId).to}
       \subseteq NodeIdsOf(graph)
  /\ SplitNodeId(FindEdge(graph.edges, edgeId), SplitT(projection)) \notin NodeIdsOf(graph)

\* C23 as amended: a split at an interior fraction of an edge whose end
\* nodes are in the graph, when no node has the new node's id yet, replaces
\* the edge by the two edges suffixed _a and _b, which inherit its status,
\* the original id leaving the overlay; every other split (t within EPS of
\* an end, unknown edge, missing end node, node id taken) changes neither
\* the graph nor the overlay.
C23_SplitReplacesOrChangesNothing ==
  \A edgeId \in EdgeIdsOf(graph) \cup {"unknown"} : \A projection \in SplitProjections :
     IF InteriorFraction(projection) /\ CanSplit(edgeId, projection)
     THEN SplitReplaces(SplitOf(edgeId, projection), edgeId)
     ELSE SplitChangesNothing(SplitOf(edgeId, projection))

\* C23 as stated: every split of a known edge at an interior fraction
\* replaces it, and only a split at an end or of an unknown edge changes
\* nothing.
C23_EveryInteriorSplitReplaces ==
  \A edgeId \in EdgeIdsOf(graph) \cup {"unknown"} : \A projection \in SplitProjections :
     IF InteriorFraction(projection) /\ edgeId \in EdgeIdsOf(graph)
     THEN SplitReplaces(SplitOf(edgeId, projection), edgeId)
     ELSE SplitChangesNothing(SplitOf(edgeId, projection))

\* The blocked one-way road A-C was split at its midpoint: both halves are
\* blocked and the road itself is in neither set.
C23_Witness ==
  /\ {"A-C_a", "A-C_b"} \subseteq EdgeIdsOf(graph)
  /\ "A-C_p_apsw" \in NodeIdsOf(graph)
  /\ "A-C" \notin EdgeIdsOf(graph)
  /\ {"A-C_a", "A-C_b"} \subseteq blockedEdges
  /\ "A-C" \notin blockedEdges \cup trafficJamEdges

(***************************************************************************)
(* How many search loops run, and what isRunning says.                     *)
(***************************************************************************)
\* C24: at most one runAStar loop is executing at any time, and isRunning
\* is true exactly while one is.
C24_OneSearchLoopAndIsRunningTellsIt ==
  /\ Len(runs) <= 1
  /\ isRunning <=> Len(runs) = 1

\* The part of C24 about the number of loops alone.
AtMostOneSearchLoop == Len(runs) <= 1

(***************************************************************************)
(* The overlay and the pending first click against the loaded graph.       *)
(***************************************************************************)
\* C25: every id of the blocked set and of the congested set is the id of
\* an edge of the loaded graph, and a pending first road-status click names
\* an edge of the loaded graph.
C25_OverlayNamesEdgesOfLoadedGraph ==
  /\ blockedEdges \cup trafficJamEdges \subseteq EdgeIdsOf(graph)
  /\ firstBlockNode # NoBlockNode => firstBlockNode.edgeId \in EdgeIdsOf(graph)

(***************************************************************************)
(* The scores of a node in the course of a search.                         *)
(***************************************************************************)
\* The parent pointer of node n differs between two moments of a search.
ParentChanged(before, after, n) ==
  /\ n \in DOMAIN after.cameFrom
  /\ n \notin DOMAIN before.cameFrom \/ after.cameFrom[n] # before.cameFrom[n]

\* Every node that had a gScore has one that is no larger, and strictly
\* smaller when its gScore or its parent was written with another value.
ScoresOnlyDecrease(before, after) ==
  \A n \in DOMAIN before.gScore :
    /\ after.gScore[n] <= before.gScore[n]
    /\ (after.gScore[n] # before.gScore[n] \/ ParentChanged(before, after, n))
         => after.gScore[n] < before.gScore[n]

\* C26: no step of a search increases the gScore of a node that has one,
\* and a step changes the gScore or the parent of such a node only to a
\* strictly smaller gScore; nodes whose gScore is 0 and the start node
\* included.
C26_GScoreNeverIncreases ==
  [][/\ (Len(runs) = 1 /\ Len(runs') = 1) => ScoresOnlyDecrease(runs[1], runs'[1])
     /\ (Len(runs) = 1 /\ Len(runs') = 0 /\ Len(reported') = 1)
          => ScoresOnlyDecrease(runs[1], reported'[1])]_vars

\* The same for the nodes whose recorded gScore is not 0.
PositiveScoresOnlyDecrease(before, after) ==
  \A n \in DOMAIN before.gScore :
    before.gScore[n] # 0 =>
      /\ after.gScore[n] <= before.gScore[n]
      /\ (after.gScore[n] # before.gScore[n] \/ ParentChanged(before, after, n))
           => after.gScore[n] < before.gScore[n]

\* The part of C26 about the nodes whose recorded gScore is positive.
PositiveGScoreNeverIncreases ==
  [][/\ (Len(runs) = 1 /\ Len(runs') = 1)
          => PositiveScoresOnlyDecrease(runs[1], runs'[1])
     /\ (Len(runs) = 1 /\ Len(runs') = 0 /\ Len(reported') = 1)
          => PositiveScoresOnlyDecrease(runs[1], reported'[1])]_vars

(***************************************************************************)
(* src/unnamed/part_005: the earlier PathfindingDashboard, whose runAStar  *)
(* keeps an open set and no closed set.  A run is a record with the        *)
(* fields of the closure; pc is "timer" at the await of the loop, "done"   *)
(* at a return, and "hung" inside a path reconstruction that never leaves  *)
(* its while loop.                                                         *)
(***************************************************************************)
Part005NoPathAlert == "No path found!"

\* The connector edges pushed for one bound point: none when no nearest
\* edge is found.
Part005Connectors(graphArg, point, virtualId, id1, id2) ==
  LET info == findNearestEdgeAndProjection(point.lat, point.lng, graphArg)
      nFrom == FindNode(graphArg.nodes, info.edge.from)
      nTo == FindNode(graphArg.nodes, info.edge.to)
  IN IF info.edge.id # NULL
     THEN << [id |-> id1, from |-> virtualId, to |-> info.edge.from,
              distance |-> haversineDistance(point.lat, point.lng, nFrom.lat, nFrom.lng),
              bidirectional |-> TRUE],
             [id |-> id2, from |-> virtualId, to |-> info.edge.to,
              distance |-> haversineDistance(point.lat, point.lng, nTo.lat, nTo.lng),
              bidirectional |-> TRUE] >>
     ELSE << >>

Part005AugmentedEdges(graphArg, sp, ep) ==
  graphArg.edges
    \o Part005Connectors(graphArg, sp, startVirtualId, "v_s_1", "v_s_2")
    \o Part005Connectors(graphArg, ep, endVirtualId, "v_e_1", "v_e_2")

\* The neighbour an edge yields for the node taken from the open set:
\* the reverse direction only when bidirectional === true.
Part005EdgeNeighbor(edge, current) ==
  IF edge.from = current THEN edge.to
  ELSE IF edge.to = current /\ "bidirectional" \in DOMAIN edge /\ edge.bidirectional = TRUE
  THEN edge.from
  ELSE NULL

RECURSIVE Part005NeighborScan(_, _, _)
Part005NeighborScan(r, current, i) ==
  IF i > Len(r.augmentedEdges) THEN << >>
  ELSE LET edge == r.augmentedEdges[i]
           rest == Part005NeighborScan(r, current, i + 1)
       IN IF edge.id \in r.blockedEdges \/ Part005EdgeNeighbor(edge, current) = NULL
          THEN rest
          ELSE << [id |-> Part005EdgeNeighbor(edge, current),
                   cost |-> EdgeWeight(r, edge)] >> \o rest

\* A relaxation that reads a recorded gScore as it is, 0 included.
Part005Improves_ZeroIsAScore(r, neighbor, tentativeGScore) ==
  LET g == MapGet(r.gScore, neighbor.id)
  IN tentativeGScore < (IF g = Undefined THEN Infinity ELSE g)

\* `tentativeGScore < (gScore.get(neighbor.id) || Infinity)`
Part005Improves(r, neighbor, tentativeGScore) ==
  tentativeGScore < OrInfinity(MapGet(r.gScore, neighbor.id))

\* The for loop over the neighbours of r.current, from the i-th on.
RECURSIVE Part005RelaxScan(_, _, _)
Part005RelaxScan(r, neighbors, i) ==
  IF i > Len(neighbors) THEN r
  ELSE LET neighbor == neighbors[i]
           tentativeGScore == OrZero(MapGet(r.gScore, r.current)) + neighbor.cost
       IN IF Part005Improves(r, neighbor, tentativeGScore)
          THEN Part005RelaxScan(
                 [r EXCEPT !.cameFrom = MapSet(@, neighbor.id, r.current),
                           !.gScore = MapSet(@, neighbor.id, tentativeGScore),
                           !.fScore = MapSet(@, neighbor.id,
                                             tentativeGScore + heuristicFunc(r, neighbor.id)),
                           !.openSet = SetAdd(@, neighbor.id)],
                 neighbors, i + 1)
          ELSE Part005RelaxScan(r, neighbors, i + 1)

\* Whether `while (temp) { path.unshift(temp); temp = cameFrom.get(temp); }`
\* leaves its loop: it does when it meets a node without a parent (or a
\* falsy id) within one pointer per key of cameFrom, and never otherwise.
RECURSIVE Part005WalkEnds(_, _, _)
Part005WalkEnds(cameFrom, temp, fuel) ==
  IF temp = "" \/ temp \notin DOMAIN cameFrom THEN TRUE
  ELSE IF fuel = 0 THEN FALSE
  ELSE Part005WalkEnds(cameFrom, cameFrom[temp], fuel - 1)

\* The path the loop builds when it leaves.
RECURSIVE Part005Path(_, _)
Part005Path(cameFrom, temp) ==
  IF temp = "" THEN << >>
  ELSE IF temp \notin DOMAIN cameFrom THEN << temp >>
  ELSE Append(Part005Path(cameFrom, cameFrom[temp]), temp)

\* One iteration of `while (openSet.size > 0)`, from the loop test to the
\* await at its end or to a return.
Part005Iteration(r) ==
  IF Len(r.openSet) = 0
  THEN [r EXCEPT !.pc = "done", !.outcome = "nopath"]
  ELSE IF r.isPaused
  THEN [r EXCEPT !.pc = "paused"]
  ELSE LET current == LowestF(r)
       IN IF current = endVirtualId
          THEN IF Part005WalkEnds(r.cameFrom, current, Cardinality(DOMAIN r.cameFrom))
               THEN [r EXCEPT !.pc = "done", !.outcome = "success",
                              !.current = current,
                              !.path = Part005Path(r.cameFrom, current),
                              !.distance = OrZero(MapGet(r.gScore, current))]
               ELSE [r EXCEPT !.pc = "hung", !.current = current]
          ELSE LET taken == [r EXCEPT !.current = current,
                                      !.openSet = SetDelete(@, current),
                                      !.nodesExplored = @ + 1]
               IN [ Part005RelaxScan(taken, Part005NeighborScan(taken, current, 1), 1)
                      EXCEPT !.pc = "timer" ]

\* runAStar from its call to its first await or return.
Part005NewRun(graphArg, blocked, traffic, paused, sp, ep) ==
  LET r0 == [graph |-> graphArg, blockedEdges |-> blocked, trafficJamEdges |-> traffic,
             isPaused |-> paused, startPoint |-> sp, endPoint |-> ep,
             augmentedNodes |-> AugmentedNodes(graphArg, sp, ep),
             augmentedEdges |-> Part005AugmentedEdges(graphArg, sp, ep),
             openSet |-> << startVirtualId >>,
             cameFrom |-> [ x \in {} |-> NULL ],
             gScore |-> [ x \in {startVirtualId} |-> 0 ],
             fScore |-> [ x \in {startVirtualId} |-> 0 ],
             nodesExplored |-> 0, current |-> NULL,
             pc |-> "start", outcome |-> "none", path |-> << >>, distance |-> 0]
  IN Part005Iteration([r0 EXCEPT !.fScore = [ x \in {startVirtualId} |->
                                                 heuristicFunc(r0, startVirtualId) ]])

\* What the invocation writes to the component state when it stops at r;
\* inside a reconstruction that never ends it writes nothing.
Part005Settle(rest, r) ==
  IF r.pc = "done" /\ r.outcome = "success"
  THEN /\ runs' = rest
       /\ reported' = << r >>
       /\ pathData' = PathCoords(r, r.path)
       /\ stats' = [distance |-> MathRound(r.distance),
                    nodesExplored |-> r.nodesExplored, pathLength |-> Len(r.path)]
       /\ isRunning' = FALSE
       /\ isComplete' = TRUE
       /\ UNCHANGED alerted
  ELSE IF r.pc = "done"
  THEN /\ runs' = rest
       /\ reported' = << r >>
       /\ alerted' = Part005NoPathAlert
       /\ isRunning' = FALSE
       /\ UNCHANGED << pathData, stats, isComplete >>
  ELSE /\ runs' = Append(rest, r)
       /\ UNCHANGED << reported, pathData, stats, alerted >>

\* The Start A* button (disabled without both points and while running).
Part005StartAStar ==
  /\ startPoint # NoPoint /\ endPoint # NoPoint /\ ~isRunning
  /\ runs = << >>
  /\ LET r == Part005NewRun(graph, blockedEdges, trafficJamEdges, isPaused,
                            startPoint, endPoint)
     IN /\ isPaused' = FALSE
        /\ IF r.pc = "done"
           THEN Part005Settle(<< >>, r)
           ELSE /\ Part005Settle(<< >>, r)
                /\ isRunning' = TRUE
                /\ isComplete' = FALSE
  /\ UNCHANGED << graph, startPoint, endPoint, blockedEdges, trafficJamEdges, mode,
                  roadStatusMode, firstBlockNode, builder, bfs >>

\* The timer at the end of an iteration fires: the next iteration.
Part005AStarStep ==
  /\ Len(runs) = 1
  /\ runs[1].pc = "timer"
  /\ runs[1].nodesExplored < MaxExplored
  /\ LET r == Part005Iteration(runs[1])
     IN /\ Part005Settle(<< >>, r)
        /\ IF r.pc = "done" THEN TRUE ELSE UNCHANGED << isRunning, isComplete >>
  /\ UNCHANGED << graph, startPoint, endPoint, blockedEdges, trafficJamEdges, mode,
                  roadStatusMode, firstBlockNode, isPaused, builder, bfs >>

NextPart005 ==
  \/ Part005StartAStar
  \/ Part005AStarStep

SpecPart005 == InitSearch /\ [][NextPart005]_vars

\* The chain of parents from node n comes back to a node it passed.
Part005ParentCycle(r) ==
  \E n \in DOMAIN r.cameFrom :
    ~Part005WalkEnds(r.cameFrom, n, Cardinality(DOMAIN r.cameFrom))

\* C27 (src/unnamed/part_005): in every search the parent pointers form no
\* cycle and virtual_start has no parent; no search is inside a path
\* reconstruction that never ends; and the path of a search that took
\* virtual_end from the open set begins at virtual_start and ends at
\* virtual_end.
C27_ParentsFormNoCycle ==
  /\ \A i \in 1..Len(runs) :
       /\ ~Part005ParentCycle(runs[i])
       /\ startVirtualId \notin DOMAIN runs[i].cameFrom
       /\ runs[i].pc # "hung"
  /\ \A k \in 1..Len(reported) :
       /\ ~Part005ParentCycle(reported[k])
       /\ startVirtualId \notin DOMAIN reported[k].cameFrom
       /\ reported[k].outcome = "success"
            => /\ Len(reported[k].path) >= 2
               /\ reported[k].path[1] = startVirtualId
               /\ reported[k].path[Len(reported[k].path)] = endVirtualId

\* The part of C27 about the reconstruction alone: no search is inside a
\* path reconstruction that never ends.
Part005ReconstructionEnds == \A i \in 1..Len(runs) : runs[i].pc # "hung"

\* No search of the variant reports a path.
Part005ReportsNoPath == \A k \in 1..Len(reported) : reported[k].outcome # "success"

(***************************************************************************)
(* Undo in the graph builder (ManualBuilder.js lines 44-45).               *)
(***************************************************************************)
\* The step is one of add node, add edge, delete node, delete edge or the
\* import of a file: it writes nodes, edges or history, and is neither the
\* answer of the mount fetch nor undo.
MutatingStep ==
  /\ << builder'.nodes, builder'.edges, builder'.history >>
       # << builder.nodes, builder.edges, builder.history >>
  /\ builder'.fetching = builder.fetching
  /\ builder' # Undone(builder)

\* Builder b has the node and edge collections of builder c.
SameCollections(b, c) == b.nodes = c.nodes /\ b.edges = c.edges

\* Two of these operations followed by two undos restore the collections:
\* stated for the operation that follows a first one whose undo is still
\* in history.
TwoUndosRestore ==
  (MutatingStep /\ Len(builder.history) > 0)
    => SameCollections(Undone(Undone(builder')), Undone(builder))

\* C29: undo after any one of add node, add edge, delete node, delete edge
\* or import restores the node and edge collections to their values before
\* that operation, and two undos after two of them restore the collections
\* before the first.
C29_UndoRestoresCollections ==
  [][/\ MutatingStep => SameCollections(Undone(builder'), builder)
     /\ TwoUndosRestore]_vars

\* The second part of C29 alone.
TwoUndosRestoreCollections == [][TwoUndosRestore]_vars

\* The operation whose undo fails is the import of a file that was chosen
\* before another operation ran.
UndoFailsOnlyAfterStaleImport ==
  [][(MutatingStep /\ ~SameCollections(Undone(builder'), builder))
       => \E i \in 1..Len(builder.readers) :
            /\ builder' = Imported(builder, i)
            /\ ~SameCollections(builder.readers[i], builder)]_vars

(***************************************************************************)
(* SpecClicks: the graph of one one-way road, loaded, under map clicks on  *)
(* its two nodes, mode changes, resets and searches.                       *)
(***************************************************************************)
InitClicks ==
  /\ graph = OneWayGraph
  /\ startPoint = NoPoint
  /\ endPoint = NoPoint
  /\ blockedEdges = {}
  /\ trafficJamEdges = {}
  /\ mode = "select"
  /\ roadStatusMode = NULL
  /\ firstBlockNode = NoBlockNode
  /\ isRunning = FALSE
  /\ isPaused = FALSE
  /\ isComplete = FALSE
  /\ pathData = << >>
  /\ stats = ZeroStats
  /\ runs = << >>
  /\ reported = << >>
  /\ alerted = NULL
  /\ builder = NewBuilder
  /\ bfs = NoBfs

NextClicks ==
  \/ SelectModeButton
  \/ RoadStatusModeButton
  \/ \E status \in {"block", "clear"} : ApplyButton(status)
  \/ \E latlng \in NodePoints(graph) : handleMapClick(latlng)
  \/ handleReset
  \/ StartAStar
  \/ \E i \in 1..Len(runs) : AStarStep(i)

SpecClicks == InitClicks /\ [][NextClicks]_vars

\* The end point is set only if the start point is set.
EndOnlyWithStart == endPoint # NoPoint => startPoint # NoPoint

\* A click in select mode with both points set, outside a search: the
\* clicked point becomes the start, the end and the displayed path are
\* cleared.
ThirdClickStartsOver ==
  \A latlng \in ClickPoints :
    (/\ ~isRunning /\ mode = "select"
     /\ startPoint # NoPoint /\ endPoint # NoPoint
     /\ handleMapClick(latlng))
      => /\ startPoint' = latlng
         /\ endPoint' = NoPoint
         /\ pathData' = << >>

\* A click while isRunning is true changes nothing of the component.
RunningClickChangesNothing ==
  \A latlng \in ClickPoints :
    (isRunning /\ handleMapClick(latlng))
      => UNCHANGED << graph, startPoint, endPoint, blockedEdges, trafficJamEdges,
                      mode, roadStatusMode, firstBlockNode, isRunning, isPaused,
                      isComplete, pathData, stats, alerted >>

\* C30: under map clicks, mode changes and resets the end point is set only
\* if the start point is set; a select-mode click with both points set
\* makes the clicked point the start and clears the end and the displayed
\* path; a map click while isRunning is true changes neither the points,
\* nor the overlay, nor the pending first road-status click, nor anything
\* else of the component.
C30_ClicksKeepThePointsInOrder ==
  [][EndOnlyWithStart' /\ ThirdClickStartsOver /\ RunningClickChangesNothing]_vars

\* A search is running with both points set, in road-status mode with a
\* first click pending: a click would finish a run of roads.
C30_Witness ==
  /\ isRunning /\ Len(runs) = 1
  /\ startPoint # NoPoint /\ endPoint # NoPoint
  /\ mode = "road-status" /\ roadStatusMode = "block"
  /\ firstBlockNode # NoBlockNode

\* A route is displayed for both points in select mode outside a search:
\* the next click starts over.
ThirdClickWitness ==
  /\ ~isRunning /\ mode = "select"
  /\ startPoint # NoPoint /\ endPoint # NoPoint
  /\ Len(pathData) > 0

\* The second part of C30 alone, for specifications that also load graphs.
ThirdClickAlwaysStartsOver == [][ThirdClickStartsOver]_vars
====
